---------------------------- MODULE Spec2Model ----------------------------
(***************************************************************************)
(* persona-guardian: the vector builder (core.build_persona_vector and    *)
(* the build-vector command), the steering generator                       *)
(* (PersonaVectorAnalyzer.generate_with_steering) and the dataset analyzer *)
(* (PersonaVectorAnalyzer.analyze_dataset_file) as state machines.         *)
(*                                                                         *)
(* Tensors are vectors of two integer components.  The language model and  *)
(* its tokenizer are external collaborators: a forward pass is a           *)
(* deterministic stand-in function in the builder and the analyzer, and a  *)
(* free choice of the last-position hidden vector in the steering loop     *)
(* (every forward pass of one generation sees a different id sequence, so  *)
(* a free choice per pass ranges over all deterministic models).           *)
(***************************************************************************)
EXTENDS Integers, Sequences, FiniteSets, TLC

VARIABLES
    \* ---- build-vector (cli.build_vector, core.build_persona_vector) ----
    b_pc,            \* position of the build-vector command
    model_name,      \* the model argument, a sequence of characters
    trait_config,    \* the trait_config argument: [stem, content]
    trait,           \* the loaded TraitConfig, or NoTrait
    q_idx,           \* number of probe questions already processed
    pos_vec,         \* pos_vec of the iteration under way (<<>> when none)
    pos_vecs,        \* core.py:87
    neg_vecs,        \* core.py:88
    extract_log,     \* every _capture_hidden_states call made, in order
    log_at_reduce,   \* extract_log as it stood when the means were computed
    vector,          \* what build_persona_vector returned (<<>> when nothing)
    fs,              \* the vector files on disk: path -> content
    fs0,             \* the files on disk when the command started
    exit_code,       \* <<>> while running, then <<0>> or <<1>>
    fail_stage,      \* the stage that raised ("" when none)
    \* ---- generate_with_steering ----
    g_pc,            \* "init", "loop", "done", "failed"
    prompt,          \* the tokenized prompt (input_ids)
    max_new_tokens,
    steering_strength,
    steer_direction,
    persona_vector,  \* self.persona_vector
    lm_head,         \* self.model.lm_head: a weight row per token id
    step,            \* iterations of the for loop started so far
    current_ids,
    generated_tokens,
    last_hidden,     \* last_hidden of the latest pass (<<>> before the first)
    steered_hidden,  \* steered_hidden of the latest pass
    forward_passes,  \* number of self.model(...) calls made
    pass_ids,        \* the id sequence the latest self.model(...) call was given
    result,          \* the returned dict (NoResult until returned)
    ref_tokens,      \* the unsteered greedy run on the same model and prompt
    \* ---- analyze_dataset_file ----
    a_pc,            \* "scan", "done", "raised"
    lines,           \* the lines of the JSONL file
    line_no,         \* number of lines read so far
    scores,
    examples_high,   \* examples_by_score["high"]
    examples_medium,
    examples_low,
    stats,           \* the returned dict (NoStats until returned)
    skip_log,        \* line indices i printed as "Skipping line i"
    scored_lines,    \* line indices whose text was scored and appended
    score_errors,    \* line indices whose score_text call raised
    \* ---- score-text, analyze-dataset, steer-generate (cli.py) ----
    c_pc,            \* position of the command
    c_cmd,           \* which command runs
    c_model,         \* --model
    c_trait,         \* --trait
    c_direction,     \* --direction (steer-generate)
    c_dataset_exists,\* whether dataset_path names a file (analyze-dataset)
    c_output,        \* whether --output was given (analyze-dataset)
    c_echo,          \* the kinds of message the command has printed
    c_raised,        \* the exception on its way to the except clause ("" when none)
    c_fail,          \* the step that failed ("" when none)
    c_analyzer,      \* the persona vector of the constructed analyzer (<<>> when none)
    c_exit,          \* <<>> while running, then <<0>> or <<1>>
    \* ---- callers of save_persona_vector and load_persona_vector ----
    s_latest,        \* per (model, trait, directory): the vector last saved (<<>> when none)
    s_loaded,        \* the latest load: its key, its result, s_latest at that time
    s_saves,         \* number of saves made
    \* ---- get_analyzer (web/_utils.py) ----
    cache,           \* _ANALYZER_CACHE: a set of [key, analyzer] entries
    constructions,   \* the key of every analyzer constructed, in order
    constructed_with,\* the arguments each of them was constructed with
    calls,           \* number of get_analyzer calls made
    last_put,        \* the latest insertion into the cache
    r_pc,            \* per request: position inside get_analyzer
    r_args,          \* per request: the arguments of its call
    r_analyzer,      \* per request: the local variable analyzer (0 when unset)
    r_held,          \* per request: the instance returned to it (0 when none)
    r_missed,        \* per request: its membership check found no entry
    r_cache0,        \* per request: the cache as it was when the call began
    \* ---- a sequence of operations on one analyzer ----
    sess_log,        \* the [text, score] of every score_text call that returned
    sess_ops,        \* the operations called so far, in order: [name, texts]
    sess_vector0,    \* self.persona_vector as loaded by __init__ (<<>> when none)
    \* ---- POST /steer (web/fastapi_app.py) ----
    h_pc,            \* position of the request handler
    h_direction,     \* req.steer_direction
    h_status,        \* <<>> until the response is sent, then its HTTP status
    h_out            \* the body of a 200 response (NoResult when none)

buildVars == <<b_pc, model_name, trait_config, trait, q_idx, pos_vec, pos_vecs,
               neg_vecs, extract_log, log_at_reduce, vector, fs, fs0,
               exit_code, fail_stage>>
steerVars == <<g_pc, prompt, max_new_tokens, steering_strength, steer_direction,
               persona_vector, lm_head, step, current_ids, generated_tokens,
               last_hidden, steered_hidden, forward_passes, pass_ids, result,
                   ref_tokens>>
analyzeVars == <<a_pc, lines, line_no, scores, examples_high, examples_medium,
                 examples_low, stats, skip_log, scored_lines, score_errors>>
cliVars == <<c_pc, c_cmd, c_model, c_trait, c_direction, c_dataset_exists, c_output,
             c_echo, c_raised, c_fail, c_analyzer, c_exit>>
storeVars == <<s_latest, s_loaded, s_saves>>
cacheVars == <<cache, constructions, constructed_with, calls, last_put, r_pc, r_args, r_analyzer, r_held,
               r_missed, r_cache0>>
sessVars == <<sess_log, sess_ops, sess_vector0>>
httpVars == <<h_pc, h_direction, h_status, h_out>>
vars == <<buildVars, steerVars, analyzeVars, cliVars, storeVars, cacheVars, sessVars,
          httpVars>>

(* What the steps of one operation leave alone: the state of the others. *)
notBuild == <<steerVars, analyzeVars, cliVars, storeVars, cacheVars, sessVars, httpVars>>
notSteer == <<buildVars, analyzeVars, cliVars, storeVars, cacheVars, sessVars, httpVars>>
notAnalyze == <<buildVars, steerVars, cliVars, storeVars, cacheVars, sessVars, httpVars>>
notCli == <<buildVars, steerVars, analyzeVars, storeVars, cacheVars, sessVars, httpVars>>
notStore == <<buildVars, steerVars, analyzeVars, cliVars, cacheVars, sessVars, httpVars>>
notCache == <<buildVars, steerVars, analyzeVars, cliVars, storeVars, sessVars, httpVars>>
notSess == <<buildVars, steerVars, analyzeVars, cliVars, storeVars, cacheVars, httpVars>>
(* A handler or command that calls generate_with_steering changes steerVars too. *)
notHttp == <<buildVars, analyzeVars, cliVars, storeVars, cacheVars, sessVars>>
notCliSteer == <<buildVars, analyzeVars, storeVars, cacheVars, sessVars, httpVars>>

-----------------------------------------------------------------------------
(* Bounds of the model. *)
MaxQuestions == 3
MaxNewTokens == 3
MaxLines == 4
MaxScoreErrors == 1
MaxSaves == 3
MaxCalls == 3
MaxOps == 4

(* Fixed-point resolution of the builder's real arithmetic: 1.0 is Scale. *)
Scale == 1000
(* The 1e-8 of core.py:109: the smallest positive fixed-point quantity. *)
Epsilon == 1

-----------------------------------------------------------------------------
(* Vectors. *)
Min(a, b) == IF a <= b THEN a ELSE b
Max(a, b) == IF a >= b THEN a ELSE b

VecAdd(a, b) == <<a[1] + b[1], a[2] + b[2]>>
VecSub(a, b) == <<a[1] - b[1], a[2] - b[2]>>
VecScale(s, a) == <<s * a[1], s * a[2]>>
Dot(a, b) == a[1] * b[1] + a[2] * b[2]

RECURSIVE VecSum(_)
VecSum(vs) == IF vs = <<>> THEN <<0, 0>> ELSE VecAdd(Head(vs), VecSum(Tail(vs)))

RECURSIVE SumSeq(_)
SumSeq(s) == IF s = <<>> THEN 0 ELSE Head(s) + SumSeq(Tail(s))

(* Integer square root: the largest r with r * r <= n, by bisection of lo..hi
   (no root of a 32-bit integer exceeds 46340). *)
RECURSIVE ISqrtIn(_, _, _)
ISqrtIn(n, lo, hi) ==
    IF lo >= hi THEN lo
    ELSE LET mid == (lo + hi + 1) \div 2
         IN  IF mid * mid <= n THEN ISqrtIn(n, mid, hi) ELSE ISqrtIn(n, lo, mid - 1)
ISqrt(n) == ISqrtIn(n, 0, Min(n, 46340))

-----------------------------------------------------------------------------
(***************************************************************************)
(* build-vector                                                            *)
(***************************************************************************)
ModelNames == {<<"q", "/", "m">>, <<"q", "_", "m">>}
Questions == {0, 1, 2}
LayerIndices == {-1, -2}
OutputDir == "persona_vectors"
(* Trait names: what --trait is given, and the base names of trait config
   files (traits/sycophancy.yaml, traits/custom.yaml). *)
TraitNames == {"sycophancy", "custom"}

RECURSIVE SeqsUpTo(_, _)
SeqsUpTo(S, n) ==
    IF n = 0 THEN {<<>>}
    ELSE LET shorter == SeqsUpTo(S, n - 1)
         IN  shorter \cup {Append(q, x) : q \in {r \in shorter : Len(r) = n - 1}, x \in S}

(* A prompt template is a sequence of pieces: words, and the substitution
   slot.  The templates of traits/sycophancy.yaml hold the slot. *)
Slot == "{description}"
PositiveTemplates == {<<"pos", Slot>>, <<"pos">>}
NegativeTemplates == {<<"neg", Slot>>, <<"neg">>}
HasSlot(template) == \E i \in 1..Len(template) : template[i] = Slot

(* core.TraitConfig; valid = FALSE stands for a file load_trait_config rejects. *)
TraitConfig(valid, name, qs, layer) ==
    [valid |-> valid, name |-> name, description |-> "d",
     positive_prompt_template |-> <<"pos", Slot>>,
     negative_prompt_template |-> <<"neg", Slot>>,
     probe_questions |-> qs, layer_index |-> layer]
NoTrait == TraitConfig(FALSE, "", <<>>, -1)

(* The same configuration with other templates. *)
WithTemplates(config, pos, neg) ==
    [config EXCEPT !.positive_prompt_template = pos, !.negative_prompt_template = neg]

(* core.py:17, the default of the layer_index field. *)
DefaultLayerIndex == -1

(* The mapping a trait file holds: the fields of the configuration, its
   layer_index <<l>> when the file gives one and <<>> when it gives none. *)
TraitData(config, layer_given) ==
    [config EXCEPT !.layer_index = IF layer_given THEN <<config.layer_index>> ELSE <<>>]
NoTraitData == TraitData(NoTrait, FALSE)

TraitFiles ==
    {NoTraitData} \cup
    {TraitData(TraitConfig(TRUE, "sycophancy", qs, l), TRUE) :
        qs \in SeqsUpTo(Questions, MaxQuestions), l \in LayerIndices} \cup
    {TraitData(TraitConfig(TRUE, "sycophancy", qs, DefaultLayerIndex), FALSE) :
        qs \in SeqsUpTo(Questions, 2)} \cup
    {TraitData(WithTemplates(TraitConfig(TRUE, "sycophancy", qs, -1), pos, neg), TRUE) :
        qs \in SeqsUpTo(Questions, 1), pos \in PositiveTemplates,
        neg \in NegativeTemplates}

ConstructTraitConfigLastLayer(data) ==
    [data EXCEPT !.layer_index = DefaultLayerIndex]

(* The TraitConfig made of the data: its fields, layer_index defaulting to -1. *)
ConstructTraitConfig(data) ==
    [data EXCEPT !.layer_index = IF data.layer_index = <<>> THEN DefaultLayerIndex
                                 ELSE data.layer_index[1]]

(* How far a question moves the hidden state under a framing, in fixed
   point: question 0 not at all (both framings give the same state, a
   degenerate trait signal), question 2 in the last place only, question 1
   by one. *)
Signal(question) == IF question = 2 THEN Epsilon ELSE question * Scale

(* The hidden state of the last token of the framed question at the layer, in
   fixed point: a deterministic stand-in for the forward pass. *)
CaptureHiddenStates(system_prompt, question, layer_index) ==
    LET h == IF Head(system_prompt) = "pos"
             THEN <<Signal(question), Scale * (Len(system_prompt) - 1)>>
             ELSE <<0 - Signal(question), Scale * (Len(system_prompt) - 1)>>
    IN  IF layer_index = -1 THEN h ELSE <<h[2], h[1]>>

FormatDescriptionOnly(template, description) == <<description>>

(* _format_system_prompt: template.format(description=description) *)
FormatSystemPrompt(template, description) ==
    [i \in 1..Len(template) |->
        IF template[i] = Slot THEN description ELSE template[i]]

(* _build_prompt_pairs: the single (positive, negative) pair. *)
BuildPromptPairs ==
    <<FormatSystemPrompt(trait.positive_prompt_template, trait.description),
      FormatSystemPrompt(trait.negative_prompt_template, trait.description)>>

(* torch.stack(vecs).mean(dim=0), in fixed point. *)
MeanVec(vecs) ==
    LET s == VecSum(vecs)
    IN  <<s[1] \div Len(vecs), s[2] \div Len(vecs)>>

(* tensor.norm(): the L2 norm, in fixed point. *)
Norm(d) == ISqrt(d[1] * d[1] + d[2] * d[2])

NormalizeBySquaredNorm(d) ==
    LET sq == d[1] * d[1] + d[2] * d[2]
    IN  <<(d[1] * Scale) \div (sq + Epsilon), (d[2] * Scale) \div (sq + Epsilon)>>

(* persona_vector / (persona_vector.norm() + 1e-8), in fixed point. *)
Normalize(d) ==
    <<(d[1] * Scale) \div (Norm(d) + Epsilon), (d[2] * Scale) \div (Norm(d) + Epsilon)>>

(* core.py:105-109 *)
PersonaVectorOf(pos, neg) == Normalize(VecSub(MeanVec(pos), MeanVec(neg)))

(* model_name.replace("/", "_") *)
RECURSIVE ReplaceSlash(_)
ReplaceSlash(name) ==
    IF name = <<>> THEN <<>>
    ELSE <<IF Head(name) = "/" THEN "_" ELSE Head(name)>> \o ReplaceSlash(Tail(name))

(* save_persona_vector's out_path: out_dir / sanitized model / <trait>.pt *)
VectorPath(out_dir, model, trait_name) ==
    [dir |-> out_dir, model_dir |-> ReplaceSlash(model), file |-> trait_name]

(* torch.save(vector, out_path): create or overwrite the file. *)
WriteFile(files, path, content) ==
    {f \in files : f.path # path} \cup {[path |-> path, content |-> content]}

OldVector == <<Scale, 0>>
TruncatedFile == <<>>

BuildInit ==
    /\ b_pc = "load_config"
    /\ model_name \in ModelNames
    /\ trait_config \in {[stem |-> n, content |-> c] : n \in TraitNames, c \in TraitFiles}
    /\ trait = NoTrait
    /\ q_idx = 0
    /\ pos_vec = <<>>
    /\ pos_vecs = <<>>
    /\ neg_vecs = <<>>
    /\ extract_log = <<>>
    /\ log_at_reduce = <<>>
    /\ vector = <<>>
    /\ fs0 \in {{}, {[path |-> VectorPath(OutputDir, model_name, trait_config.stem),
                      content |-> OldVector]}}
    /\ fs = fs0
    /\ exit_code = <<>>
    /\ fail_stage = ""

BuildRaiseExitZero(stage) ==
    /\ b_pc' = "failed"
    /\ exit_code' = <<0>>
    /\ fail_stage' = stage

(* cli.py:34-36: any exception ends the command with exit status 1. *)
BuildRaise(stage) ==
    /\ b_pc' = "failed"
    /\ exit_code' = <<1>>
    /\ fail_stage' = stage

(* core.py:77 load_trait_config *)
LoadTraitConfig ==
    /\ b_pc = "load_config"
    /\ IF trait_config.content.valid
       THEN /\ trait' = ConstructTraitConfig(trait_config.content)
            /\ b_pc' = "load_model"
            /\ UNCHANGED <<exit_code, fail_stage>>
       ELSE /\ BuildRaise("config")
            /\ UNCHANGED trait
    /\ UNCHANGED <<model_name, trait_config, q_idx, pos_vec, pos_vecs, neg_vecs,
                   extract_log, log_at_reduce, vector, fs, fs0>>
    /\ UNCHANGED notBuild

LoopEntrySkippingLast(i) ==
    IF i + 1 < Len(trait.probe_questions) THEN "capture_pos" ELSE "reduce"

(* The first position of the loops of core.py:93-94. *)
LoopEntry(i) == IF i < Len(trait.probe_questions) THEN "capture_pos" ELSE "reduce"

(* core.py:80-85 from_pretrained succeeds *)
LoadModel ==
    /\ b_pc = "load_model"
    /\ b_pc' = LoopEntry(0)
    /\ UNCHANGED <<model_name, trait_config, trait, q_idx, pos_vec, pos_vecs, neg_vecs,
                   extract_log, log_at_reduce, vector, fs, fs0, exit_code, fail_stage>>
    /\ UNCHANGED notBuild

(* core.py:80-85 from_pretrained raises *)
LoadModelFails ==
    /\ b_pc = "load_model"
    /\ BuildRaise("model")
    /\ UNCHANGED <<model_name, trait_config, trait, q_idx, pos_vec, pos_vecs, neg_vecs,
                   extract_log, log_at_reduce, vector, fs, fs0>>
    /\ UNCHANGED notBuild

Extraction(framing) ==
    [framing |-> framing, question |-> trait.probe_questions[q_idx + 1],
     layer |-> trait.layer_index]

(* core.py:96-98 *)
CapturePos ==
    /\ b_pc = "capture_pos"
    /\ pos_vec' = CaptureHiddenStates(BuildPromptPairs[1],
                                      trait.probe_questions[q_idx + 1], trait.layer_index)
    /\ extract_log' = Append(extract_log, Extraction("pos"))
    /\ b_pc' = "capture_neg"
    /\ UNCHANGED <<model_name, trait_config, trait, q_idx, pos_vecs, neg_vecs,
                   log_at_reduce, vector, fs, fs0, exit_code, fail_stage>>
    /\ UNCHANGED notBuild

(* core.py:99-103 *)
CaptureNeg ==
    /\ b_pc = "capture_neg"
    /\ LET neg_vec == CaptureHiddenStates(BuildPromptPairs[2],
                                          trait.probe_questions[q_idx + 1],
                                          trait.layer_index)
       IN  /\ pos_vecs' = Append(pos_vecs, pos_vec)
           /\ neg_vecs' = Append(neg_vecs, neg_vec)
    /\ extract_log' = Append(extract_log, Extraction("neg"))
    /\ pos_vec' = <<>>
    /\ q_idx' = q_idx + 1
    /\ b_pc' = LoopEntry(q_idx + 1)
    /\ UNCHANGED <<model_name, trait_config, trait, log_at_reduce, vector, fs, fs0,
                   exit_code, fail_stage>>
    /\ UNCHANGED notBuild

(* A forward pass of core.py:96-101 raises (the call is logged as made). *)
CaptureFails ==
    /\ b_pc \in {"capture_pos", "capture_neg"}
    /\ extract_log' = Append(extract_log,
                             Extraction(IF b_pc = "capture_pos" THEN "pos" ELSE "neg"))
    /\ BuildRaise("extract")
    /\ UNCHANGED <<model_name, trait_config, trait, q_idx, pos_vec, pos_vecs, neg_vecs,
                   log_at_reduce, vector, fs, fs0>>
    /\ UNCHANGED notBuild

ReduceRaisesOnZeroDifference(pos, neg) ==
    pos = <<>> \/ VecSub(MeanVec(pos), MeanVec(neg)) = <<0, 0>>

(* What makes core.py:105-109 raise: torch.stack of an empty list. *)
ReduceRaises(pos, neg) == pos = <<>>

(* core.py:105-112 *)
Reduce ==
    /\ b_pc = "reduce"
    /\ IF ReduceRaises(pos_vecs, neg_vecs)
       THEN /\ BuildRaise("reduce")
            /\ UNCHANGED <<vector, log_at_reduce>>
       ELSE /\ vector' = PersonaVectorOf(pos_vecs, neg_vecs)
            /\ log_at_reduce' = extract_log
            /\ b_pc' = "save"
            /\ UNCHANGED <<exit_code, fail_stage>>
    /\ UNCHANGED <<model_name, trait_config, trait, q_idx, pos_vec, pos_vecs, neg_vecs,
                   extract_log, fs, fs0>>
    /\ UNCHANGED notBuild

(* cli.py:30 os.path.splitext(os.path.basename(trait_config))[0] *)
TraitNameOf(config) == config.stem

(* cli.py:30-33 and core.save_persona_vector *)
Save ==
    /\ b_pc = "save"
    /\ fs' = WriteFile(fs, VectorPath(OutputDir, model_name, TraitNameOf(trait_config)),
                       vector)
    /\ b_pc' = "done"
    /\ exit_code' = <<0>>
    /\ UNCHANGED <<model_name, trait_config, trait, q_idx, pos_vec, pos_vecs, neg_vecs,
                   extract_log, log_at_reduce, vector, fs0, fail_stage>>
    /\ UNCHANGED notBuild

(* core.py:123-125 mkdir or torch.save raises: nothing or a truncated file is left. *)
SaveFails ==
    /\ b_pc = "save"
    /\ fs' \in {fs, WriteFile(fs, VectorPath(OutputDir, model_name,
                                             TraitNameOf(trait_config)), TruncatedFile)}
    /\ BuildRaise("save")
    /\ UNCHANGED <<model_name, trait_config, trait, q_idx, pos_vec, pos_vecs, neg_vecs,
                   extract_log, log_at_reduce, vector, fs0>>
    /\ UNCHANGED notBuild

BuildNext ==
    \/ LoadTraitConfig
    \/ LoadModel
    \/ LoadModelFails
    \/ CapturePos
    \/ CaptureNeg
    \/ CaptureFails
    \/ Reduce
    \/ Save
    \/ SaveFails


-----------------------------------------------------------------------------
(***************************************************************************)
(* generate_with_steering                                                  *)
(***************************************************************************)
Vocab == {0, 1, 2}
(* self.tokenizer.eos_token_id *)
EosTokenId == 2
Prompts == {<<1>>, <<0, 1>>}
HiddenStates == {<<0, 0>>, <<1, 0>>, <<0, 1>>, <<-1, -1>>, <<2, 1>>, <<-1, 2>>}
PersonaVectors == {<<0, 0>>, <<1, 0>>, <<-1, 1>>, <<1, 2>>}
Strengths == {-1, 0, 1, 2}
Directions == {"reduce", "amplify", "sideways"}
LmHeads ==
    {[t \in Vocab |-> CASE t = 0 -> <<1, 0>> [] t = 1 -> <<0, 1>> [] OTHER -> <<-1, -1>>],
     [t \in Vocab |-> CASE t = 0 -> <<-1, 1>> [] t = 1 -> <<1, 1>> [] OTHER -> <<1, -1>>],
     [t \in Vocab |-> CASE t = 0 -> <<0, 0>> [] t = 1 -> <<2, -1>> [] OTHER -> <<-1, 1>>]}

SteerByName(h, strength, v, direction) ==
    IF direction = "amplify"
    THEN VecAdd(h, VecScale(strength, v))
    ELSE VecSub(h, VecScale(strength, v))

SteerUnscaled(h, strength, v, direction) ==
    IF direction = "reduce" THEN VecSub(h, v) ELSE VecAdd(h, v)

SteerAlwaysAdding(h, strength, v, direction) == VecAdd(h, VecScale(strength, v))

(* analyzer.py:284-289, the branch on steer_direction. *)
Steer(h, strength, v, direction) ==
    IF direction = "reduce"
    THEN VecSub(h, VecScale(strength, v))
    ELSE VecAdd(h, VecScale(strength, v))

(* analyzer.py:293-294 lm_head(steered_hidden) *)
Logits(W, x) == [t \in Vocab |-> Dot(W[t], x)]

CatDroppingHistory(ids, token) == <<token>>

(* analyzer.py:301 torch.cat([current_ids, next_token_id], dim=1) *)
Cat(ids, token) == Append(ids, token)

(* torch.argmax: the first index holding the maximal value. *)
ArgMax(l) ==
    CHOOSE t \in Vocab : \A u \in Vocab : l[t] > l[u] \/ (l[t] = l[u] /\ t <= u)

(* analyzer.py:297-298 *)
NextTokenId(W, x) == ArgMax(Logits(W, x))

DecodeKeepingSpecial(tokens) == tokens

(* tokenizer.decode(tokens, skip_special_tokens=True) *)
Decode(tokens) == SelectSeq(tokens, LAMBDA t : t # EosTokenId)

NoResult ==
    [generated_text |-> <<>>, full_output |-> <<>>, steering_strength |-> 0,
     steer_direction |-> "", tokens_generated |-> -1]

(* analyzer.py:311-318 *)
SteeringResult ==
    [generated_text |-> Decode(generated_tokens),
     full_output |-> prompt \o Decode(generated_tokens),
     steering_strength |-> steering_strength,
     steer_direction |-> steer_direction,
     tokens_generated |-> Len(generated_tokens)]

SteerInit ==
    /\ g_pc = "init"
    /\ prompt \in Prompts
    /\ max_new_tokens \in -1..MaxNewTokens
    /\ steering_strength \in Strengths
    /\ steer_direction \in Directions
    /\ persona_vector \in PersonaVectors
    /\ lm_head \in LmHeads
    /\ step = 0
    /\ current_ids = <<>>
    /\ generated_tokens = <<>>
    /\ last_hidden = <<>>
    /\ steered_hidden = <<>>
    /\ forward_passes = 0
    /\ pass_ids = <<>>
    /\ result = NoResult
    /\ ref_tokens = <<>>

LoopPositionOneMore(done, token) ==
    IF token = EosTokenId \/ done > max_new_tokens THEN "return" ELSE "loop"

LoopPositionIgnoringEos(done, token) ==
    IF done >= max_new_tokens THEN "return" ELSE "loop"

(* Where the for loop of analyzer.py:271 stands once `done` iterations have run
   and the last token chosen was `token`. *)
LoopPosition(done, token) ==
    IF token = EosTokenId \/ done >= max_new_tokens THEN "return" ELSE "loop"

(* analyzer.py:265-269 *)
GenStart ==
    /\ g_pc = "init"
    /\ current_ids' = prompt
    /\ generated_tokens' = <<>>
    /\ g_pc' = LoopPosition(0, -1)
    /\ UNCHANGED <<prompt, max_new_tokens, steering_strength, steer_direction,
                   persona_vector, lm_head, step, last_hidden, steered_hidden,
                   forward_passes, pass_ids, result,
                   ref_tokens>>
    /\ UNCHANGED notSteer

(* analyzer.py:271-305, one iteration: the pass over current_ids returns h. *)
GenStep ==
    /\ g_pc = "loop"
    /\ \E h \in HiddenStates :
         LET steered == Steer(h, steering_strength, persona_vector, steer_direction)
             next_token_id == NextTokenId(lm_head, steered)
         IN  /\ last_hidden' = h
             /\ steered_hidden' = steered
             /\ generated_tokens' = Append(generated_tokens, next_token_id)
             /\ current_ids' = Cat(current_ids, next_token_id)
             /\ g_pc' = LoopPosition(step + 1, next_token_id)
             /\ ref_tokens' = IF ref_tokens = generated_tokens
                              THEN Append(ref_tokens, NextTokenId(lm_head, h))
                              ELSE ref_tokens
    /\ step' = step + 1
    /\ forward_passes' = forward_passes + 1
    /\ pass_ids' = current_ids
    /\ UNCHANGED <<prompt, max_new_tokens, steering_strength, steer_direction,
                   persona_vector, lm_head, result>>
    /\ UNCHANGED notSteer

(* analyzer.py:272-277 the forward pass raises. *)
GenForwardFails ==
    /\ g_pc = "loop"
    /\ step' = step + 1
    /\ forward_passes' = forward_passes + 1
    /\ pass_ids' = current_ids
    /\ g_pc' = "failed"
    /\ UNCHANGED <<prompt, max_new_tokens, steering_strength, steer_direction,
                   persona_vector, lm_head, current_ids, generated_tokens, last_hidden,
                   steered_hidden, result, ref_tokens>>
    /\ UNCHANGED notSteer

(* analyzer.py:307-318 *)
GenReturn ==
    /\ g_pc = "return"
    /\ result' = SteeringResult
    /\ g_pc' = "done"
    /\ UNCHANGED <<prompt, max_new_tokens, steering_strength, steer_direction,
                   persona_vector, lm_head, step, current_ids, generated_tokens,
                   last_hidden, steered_hidden, forward_passes, pass_ids, ref_tokens>>
    /\ UNCHANGED notSteer

SteerNext ==
    \/ GenStart
    \/ GenStep
    \/ GenForwardFails
    \/ GenReturn


-----------------------------------------------------------------------------
(***************************************************************************)
(* analyze_dataset_file                                                    *)
(***************************************************************************)
(* JSON values: t is the Python type of the value, v its content. *)
JAbsent == [t |-> "absent", v |-> <<>>]
JStr(chars) == [t |-> "str", v |-> chars]
JNum(n) == [t |-> "num", v |-> <<n>>]

(* A line of the file: not JSON at all, JSON that is no object, or an object. *)
Malformed == [kind |-> "malformed", text |-> JAbsent, content |-> JAbsent,
              instruction |-> JAbsent]
NonObject == [kind |-> "nonobject", text |-> JAbsent, content |-> JAbsent,
              instruction |-> JAbsent]
Obj(text, content, instruction) ==
    [kind |-> "object", text |-> text, content |-> content, instruction |-> instruction]

DatasetLines ==
    {Malformed, NonObject,
     Obj(JStr(<<1>>), JAbsent, JAbsent),
     Obj(JStr(<<3>>), JAbsent, JAbsent),
     Obj(JStr(<<>>), JAbsent, JAbsent),
     Obj(JNum(5), JAbsent, JAbsent),
     Obj(JAbsent, JStr(<<2>>), JAbsent)}

(* Python truthiness; obj.get(key) of a missing key is None. *)
Truthy(val) ==
    CASE val.t = "str" -> Len(val.v) > 0
      [] val.t = "num" -> val.v[1] # 0
      [] OTHER -> FALSE

(* Python's `a or b`. *)
PyOr(a, b) == IF Truthy(a) THEN a ELSE b

(* str(obj): the braces around the string values the object holds. *)
StrOfObj(obj) ==
    LET chars(val) == IF val.t = "str" THEN val.v ELSE <<>>
    IN  JStr(<<0>> \o chars(obj.text) \o chars(obj.content) \o chars(obj.instruction)
             \o <<0>>)

(* analyzer.py:140 *)
ExtractText(obj) ==
    PyOr(obj.text, PyOr(obj.content, PyOr(obj.instruction, StrOfObj(obj))))

(* analyzer.py:142 *)
IsScorable(text) == text.t = "str" /\ Len(text.v) > 0

(* get_hidden_state: a deterministic stand-in for the forward pass over the text. *)
GetHiddenState(chars) == <<SumSeq(chars), Len(chars)>>

ScoreTextDrifting(chars) == Dot(GetHiddenState(chars), persona_vector) + Len(sess_ops)

(* analyzer.py:82-86 *)
ScoreText(chars) == Dot(GetHiddenState(chars), persona_vector)

(* analyzer.py:147, 149, 178, 186-187 *)
StoredExamples == 10
PreviewLen == 100
BucketScan == 100
ReportedExamples == 5

Prefix(seq, n) == SubSeq(seq, 1, Min(Len(seq), n))

Example(chars, score) == [text |-> Prefix(chars, PreviewLen), score |-> score]

ScoresAsRead(xs) == xs

SortedScores(xs) == SortSeq(xs, LAMBDA a, b : a < b)

RECURSIVE SumSquares(_)
SumSquares(xs) == IF xs = <<>> THEN 0 ELSE Head(xs) * Head(xs) + SumSquares(Tail(xs))

(* torch.quantile(q) with linear interpolation, q = tenths / 10, times 10. *)
QuantileX10(xs, tenths) ==
    LET sorted == SortedScores(xs)
        rank == tenths * (Len(xs) - 1)
        lo == rank \div 10
        hi == Min(lo + 1, Len(xs) - 1)
    IN  10 * sorted[lo + 1] + (rank % 10) * (sorted[hi + 1] - sorted[lo + 1])

(* torch.median: the lower of the two middle values. *)
Median(xs) == SortedScores(xs)[((Len(xs) - 1) \div 2) + 1]

(* analyzer.py:178-184: the examples of the first pairs of zip(scores[:100],
   high[:100]) that fall in the bucket. *)
RECURSIVE Bucketed(_, _, _, _, _)
Bucketed(bucket, xs, examples, p90, p10) ==
    IF xs = <<>> \/ examples = <<>> THEN <<>>
    ELSE LET where == IF 10 * Head(xs) >= p90 THEN "high"
                      ELSE IF 10 * Head(xs) <= p10 THEN "low"
                      ELSE "medium"
         IN  (IF where = bucket THEN <<Head(examples)>> ELSE <<>>)
             \o Bucketed(bucket, Tail(xs), Tail(examples), p90, p10)

NoStats ==
    [total_examples |-> -1, mean_score |-> <<0, 0>>, std_score_sq |-> <<0, 0>>,
     min_score |-> 0, max_score |-> 0, median_score |-> 0,
     percentile_90_x10 |-> 0, percentile_10_x10 |-> 0,
     high_trait_examples |-> <<>>, low_trait_examples |-> <<>>]

(* analyzer.py:164 *)
TotalExamples(xs) == Len(xs)

(* analyzer.py:161-187.  mean_score is <<sum, count>>, std_score_sq is the unbiased
   variance <<numerator, denominator>> (denominator 0: NaN), the percentiles are
   held times 10. *)
StatsOf(xs, high) ==
    LET n == Len(xs)
        sorted == SortedScores(xs)
        p90 == QuantileX10(xs, 9)
        p10 == QuantileX10(xs, 1)
        scanned == Prefix(xs, BucketScan)
        paired == Prefix(high, BucketScan)
    IN  [total_examples |-> TotalExamples(xs),
         mean_score |-> <<SumSeq(xs), n>>,
         std_score_sq |-> <<n * SumSquares(xs) - SumSeq(xs) * SumSeq(xs), n * (n - 1)>>,
         min_score |-> sorted[1],
         max_score |-> sorted[n],
         median_score |-> Median(xs),
         percentile_90_x10 |-> p90,
         percentile_10_x10 |-> p10,
         high_trait_examples |->
             Prefix(high \o Bucketed("high", scanned, paired, p90, p10), ReportedExamples),
         low_trait_examples |->
             Prefix(Bucketed("low", scanned, paired, p90, p10), ReportedExamples)]

(* Files of one record more than the examples that are stored. *)
LongFiles ==
    [1..(StoredExamples + 1) ->
        {Obj(JStr(<<1>>), JAbsent, JAbsent), Obj(JStr(<<3>>), JAbsent, JAbsent)}]

(* analyze_dataset_file is entered on one of the files. *)
AnalyzeInitOn(files) ==
    /\ a_pc = "scan"
    /\ lines \in files
    /\ line_no = 0
    /\ scores = <<>>
    /\ examples_high = <<>>
    /\ examples_medium = <<>>
    /\ examples_low = <<>>
    /\ stats = NoStats
    /\ skip_log = {}
    /\ scored_lines = {}
    /\ score_errors = {}

AnalyzeInit == AnalyzeInitOn(SeqsUpTo(DatasetLines, MaxLines))

(* analyzer.py:156-158: the except clause prints the line index and continues. *)
SkipLine(i) == skip_log' = skip_log \cup {i}

(* analyzer.py:135-158, one iteration in which score_text, if called, returns. *)
AnalyzeLine ==
    /\ a_pc = "scan"
    /\ line_no < Len(lines)
    /\ LET obj == lines[line_no + 1]
           text == ExtractText(obj)
       IN  IF obj.kind # "object"
           THEN /\ SkipLine(line_no)
                /\ UNCHANGED <<scores, examples_high, scored_lines>>
           ELSE IF IsScorable(text)
           THEN LET score == ScoreText(text.v)
                IN  /\ scores' = Append(scores, score)
                    /\ examples_high' = IF Len(scores) + 1 <= StoredExamples
                                        THEN Append(examples_high, Example(text.v, score))
                                        ELSE examples_high
                    /\ scored_lines' = scored_lines \cup {line_no}
                    /\ UNCHANGED skip_log
           ELSE UNCHANGED <<scores, examples_high, scored_lines, skip_log>>
    /\ line_no' = line_no + 1
    /\ UNCHANGED <<a_pc, lines, examples_medium, examples_low, stats, score_errors>>
    /\ UNCHANGED notAnalyze

(* analyzer.py:143, 156-158: score_text raises and the except clause swallows it. *)
AnalyzeLineScoreFails ==
    /\ a_pc = "scan"
    /\ line_no < Len(lines)
    /\ Cardinality(score_errors) < MaxScoreErrors
    /\ lines[line_no + 1].kind = "object"
    /\ IsScorable(ExtractText(lines[line_no + 1]))
    /\ SkipLine(line_no)
    /\ score_errors' = score_errors \cup {line_no}
    /\ line_no' = line_no + 1
    /\ UNCHANGED <<a_pc, lines, scores, examples_high, examples_medium, examples_low,
                   stats, scored_lines>>
    /\ UNCHANGED notAnalyze

(* analyzer.py:160-189; min() of an empty tensor raises. *)
AnalyzeFinish ==
    /\ a_pc = "scan"
    /\ line_no = Len(lines)
    /\ IF scores = <<>>
       THEN /\ a_pc' = "raised"
            /\ UNCHANGED <<examples_high, examples_medium, examples_low, stats>>
       ELSE LET p90 == QuantileX10(scores, 9)
                p10 == QuantileX10(scores, 1)
                scanned == Prefix(scores, BucketScan)
                paired == Prefix(examples_high, BucketScan)
            IN  /\ examples_high' = examples_high
                                    \o Bucketed("high", scanned, paired, p90, p10)
                /\ examples_medium' = Bucketed("medium", scanned, paired, p90, p10)
                /\ examples_low' = Bucketed("low", scanned, paired, p90, p10)
                /\ stats' = StatsOf(scores, examples_high)
                /\ a_pc' = "done"
    /\ UNCHANGED <<lines, line_no, scores, skip_log, scored_lines, score_errors>>
    /\ UNCHANGED notAnalyze

AnalyzeNext ==
    \/ AnalyzeLine
    \/ AnalyzeLineScoreFails
    \/ AnalyzeFinish

-----------------------------------------------------------------------------
(***************************************************************************)
(* score-text, analyze-dataset, steer-generate (cli.py)                    *)
(*                                                                         *)
(* A command runs after a build-vector run has ended, on the files that    *)
(* run left on disk and over the same vector directory.  The core          *)
(* operation the command calls either returns or raises.                   *)
(***************************************************************************)
Commands == {"score-text", "analyze-dataset", "steer-generate"}

(* vector_path.exists() *)
Exists(files, path) == \E f \in files : f.path = path

(* The content of the file at path. *)
ReadFile(files, path) == (CHOOSE f \in files : f.path = path).content

ResolvedPathUnsanitized == [dir |-> OutputDir, model_dir |-> c_model, file |-> c_trait]

(* cli.py:72-73, 139-140, 225-226: Path(vector_dir) / model_dir / f"{trait}.pt" *)
ResolvedVectorPath == VectorPath(OutputDir, c_model, c_trait)

CliIdle ==
    /\ c_pc = "idle"
    /\ c_cmd = ""
    /\ c_model = <<>>
    /\ c_trait = ""
    /\ c_direction = ""
    /\ c_dataset_exists = FALSE
    /\ c_output = FALSE
    /\ c_echo = {}
    /\ c_raised = ""
    /\ c_fail = ""
    /\ c_analyzer = <<>>
    /\ c_exit = <<>>

(* The command line is parsed and the command function is entered (no
   build-vector run is under way). *)
CliStartOf(cmds) ==
    /\ c_pc = "idle"
    /\ b_pc \in {"idle", "done", "failed"}
    /\ \E cmd \in cmds, m \in ModelNames, t \in TraitNames :
         /\ c_cmd' = cmd
         /\ c_model' = m
         /\ c_trait' = t
         /\ c_direction' \in IF cmd = "steer-generate" THEN Directions ELSE {"reduce"}
         /\ c_dataset_exists' \in IF cmd = "analyze-dataset" THEN BOOLEAN ELSE {FALSE}
         /\ c_output' \in IF cmd = "analyze-dataset" THEN BOOLEAN ELSE {FALSE}
         /\ c_pc' = IF cmd = "steer-generate" THEN "check_direction" ELSE "check_vector"
    /\ UNCHANGED <<c_echo, c_raised, c_fail, c_analyzer, c_exit>>
    /\ UNCHANGED notCli

CliStart == CliStartOf(Commands)

ExitInTryGoingOn(messages, at) ==
    /\ c_echo' = c_echo \cup messages
    /\ c_raised' = "Exit"
    /\ c_fail' = at
    /\ c_pc' = "construct"

(* raise typer.Exit(code=1) inside the try block, after the messages were printed. *)
ExitInTry(messages, at) ==
    /\ c_echo' = c_echo \cup messages
    /\ c_raised' = "Exit"
    /\ c_fail' = at
    /\ c_pc' = "except"

(* An exception of the analyzer or of the file system inside the try block. *)
RaiseInTry(at) ==
    /\ c_raised' = "Exception"
    /\ c_fail' = at
    /\ c_pc' = "except"
    /\ UNCHANGED c_echo

(* cli.py:215-222 *)
CheckDirection ==
    /\ c_pc = "check_direction"
    /\ IF c_direction \notin {"reduce", "amplify"}
       THEN ExitInTry({"direction must be reduce or amplify"}, "direction")
       ELSE /\ c_pc' = "check_vector"
            /\ UNCHANGED <<c_echo, c_raised, c_fail>>
    /\ UNCHANGED <<c_cmd, c_model, c_trait, c_direction, c_dataset_exists, c_output,
                   c_analyzer, c_exit>>
    /\ UNCHANGED notCli

(* What each command prints when the vector file is absent:
   cli.py:76-82 (score-text), 143-148 (analyze-dataset), 229-234 (steer-generate). *)
VectorNotFoundMessages(cmd) ==
    IF cmd = "score-text"
    THEN {"vector not found", "first run build-vector"}
    ELSE {"vector not found"}

(* cli.py:75-83, 142-149, 228-235 *)
CheckVector ==
    /\ c_pc = "check_vector"
    /\ IF ~Exists(fs, ResolvedVectorPath)
       THEN ExitInTry(VectorNotFoundMessages(c_cmd), "vector")
       ELSE /\ c_pc' = IF c_cmd = "analyze-dataset" THEN "check_dataset" ELSE "construct"
            /\ UNCHANGED <<c_echo, c_raised, c_fail>>
    /\ UNCHANGED <<c_cmd, c_model, c_trait, c_direction, c_dataset_exists, c_output,
                   c_analyzer, c_exit>>
    /\ UNCHANGED notCli

(* cli.py:152-159 *)
CheckDataset ==
    /\ c_pc = "check_dataset"
    /\ IF ~c_dataset_exists
       THEN ExitInTry({"dataset not found"}, "dataset")
       ELSE /\ c_pc' = "construct"
            /\ UNCHANGED <<c_echo, c_raised, c_fail>>
    /\ UNCHANGED <<c_cmd, c_model, c_trait, c_direction, c_dataset_exists, c_output,
                   c_analyzer, c_exit>>
    /\ UNCHANGED notCli

(* cli.py:87-91, 163-167, 239-243: PersonaVectorAnalyzer(...) loads the model and
   torch.load's the vector file (analyzer.py:44-45). *)
ConstructAnalyzer ==
    /\ c_pc = "construct"
    /\ ReadFile(fs, ResolvedVectorPath) # TruncatedFile
    /\ c_analyzer' = ReadFile(fs, ResolvedVectorPath)
    /\ c_pc' = "run"
    /\ UNCHANGED <<c_cmd, c_model, c_trait, c_direction, c_dataset_exists, c_output,
                   c_echo, c_raised, c_fail, c_exit>>
    /\ UNCHANGED notCli

(* The model fails to load, or torch.load rejects the file. *)
ConstructAnalyzerFails ==
    /\ c_pc = "construct"
    /\ RaiseInTry("construct")
    /\ UNCHANGED <<c_cmd, c_model, c_trait, c_direction, c_dataset_exists, c_output,
                   c_analyzer, c_exit>>
    /\ UNCHANGED notCli

(* The status of a command whose function returned. *)
ReturnExit == <<0>>

(* cli.py:94-114, 171-175, 246-254: the core operation returns and its result is
   printed; the command function returns unless a report is to be written. *)
RunCore ==
    /\ c_pc = "run"
    /\ IF c_cmd = "analyze-dataset" /\ c_output
       THEN /\ c_pc' = "write_report"
            /\ UNCHANGED c_exit
       ELSE /\ c_pc' = "done"
            /\ c_exit' = ReturnExit
    /\ c_echo' = c_echo \cup {"result"}
    /\ UNCHANGED <<c_cmd, c_model, c_trait, c_direction, c_dataset_exists, c_output,
                   c_raised, c_fail, c_analyzer>>
    /\ UNCHANGED notCli

(* score_text, analyze_dataset_file or generate_with_steering raises. *)
RunCoreFails ==
    /\ c_pc = "run"
    /\ RaiseInTry("core")
    /\ UNCHANGED <<c_cmd, c_model, c_trait, c_direction, c_dataset_exists, c_output,
                   c_analyzer, c_exit>>
    /\ UNCHANGED notCli

(* cli.py:178-185 *)
WriteReport ==
    /\ c_pc = "write_report"
    /\ c_pc' = "done"
    /\ c_exit' = ReturnExit
    /\ c_echo' = c_echo \cup {"report saved"}
    /\ UNCHANGED <<c_cmd, c_model, c_trait, c_direction, c_dataset_exists, c_output,
                   c_raised, c_fail, c_analyzer>>
    /\ UNCHANGED notCli

(* cli.py:179-184: open or write raises. *)
WriteReportFails ==
    /\ c_pc = "write_report"
    /\ RaiseInTry("report")
    /\ UNCHANGED <<c_cmd, c_model, c_trait, c_direction, c_dataset_exists, c_output,
                   c_analyzer, c_exit>>
    /\ UNCHANGED notCli

HandlerExitPassingExit(raised) == IF raised = "Exit" THEN <<0>> ELSE <<1>>

(* cli.py:116-118, 187-189, 256-258: typer.Exit is a RuntimeError, so the clause
   catches the command's own exit as it catches every other exception. *)
HandlerExit(raised) == <<1>>

CliExcept ==
    /\ c_pc = "except"
    /\ c_echo' = c_echo \cup {"error"}
    /\ c_exit' = HandlerExit(c_raised)
    /\ c_pc' = "failed"
    /\ UNCHANGED <<c_cmd, c_model, c_trait, c_direction, c_dataset_exists, c_output,
                   c_raised, c_fail, c_analyzer>>
    /\ UNCHANGED notCli

CliNext ==
    \/ CliStart
    \/ CheckDirection
    \/ CheckVector
    \/ CheckDataset
    \/ ConstructAnalyzer
    \/ ConstructAnalyzerFails
    \/ RunCore
    \/ RunCoreFails
    \/ WriteReport
    \/ WriteReportFails
    \/ CliExcept

-----------------------------------------------------------------------------
(***************************************************************************)
(* save_persona_vector and load_persona_vector (core.py)                   *)
(*                                                                         *)
(* A caller saves vectors for (model, trait, directory) keys and loads     *)
(* from the paths the saves returned.  Every save returns.                 *)
(***************************************************************************)
OutputDirs == {OutputDir, "vectors_b"}
SavedVectors == {<<Scale, 0>>, <<0, Scale>>, <<600, 800>>}
StoreKeys == ModelNames \X TraitNames \X OutputDirs

NothingSaved == [k \in StoreKeys |-> <<>>]
NoLoad == [model |-> <<>>, trait |-> "", dir |-> "", vector |-> <<>>,
           saved |-> NothingSaved]

StoreIdle ==
    /\ s_latest = NothingSaved
    /\ s_loaded = NoLoad
    /\ s_saves = 0

(* torch.load(path): the tensor the file holds. *)
LoadPersonaVector(files, path) == ReadFile(files, path)

(* core.py:115-127 save_persona_vector(vector, model_name, trait_name, out_dir) *)
SavePersonaVector ==
    /\ s_saves < MaxSaves
    /\ \E v \in SavedVectors, m \in ModelNames, t \in TraitNames, d \in OutputDirs :
         /\ fs' = WriteFile(fs, VectorPath(d, m, t), v)
         /\ s_latest' = [s_latest EXCEPT ![<<m, t, d>>] = v]
    /\ s_saves' = s_saves + 1
    /\ UNCHANGED s_loaded
    /\ UNCHANGED <<b_pc, model_name, trait_config, trait, q_idx, pos_vec, pos_vecs,
                   neg_vecs, extract_log, log_at_reduce, vector, fs0, exit_code,
                   fail_stage>>
    /\ UNCHANGED <<steerVars, analyzeVars, cliVars, cacheVars, sessVars, httpVars>>

(* core.py:130-132 load_persona_vector on the path a save for the key returned. *)
LoadSavedVector ==
    /\ \E m \in ModelNames, t \in TraitNames, d \in OutputDirs :
         /\ s_latest[<<m, t, d>>] # <<>>
         /\ s_loaded' = [model |-> m, trait |-> t, dir |-> d,
                         vector |-> LoadPersonaVector(fs, VectorPath(d, m, t)),
                         saved |-> s_latest]
    /\ UNCHANGED <<s_latest, s_saves>>
    /\ UNCHANGED notStore

StoreNext ==
    \/ SavePersonaVector
    \/ LoadSavedVector

-----------------------------------------------------------------------------
(***************************************************************************)
(* get_analyzer and _ANALYZER_CACHE (web/_utils.py)                        *)
(*                                                                         *)
(* Requests call get_analyzer.  An analyzer instance is identified by the  *)
(* position of its construction among all constructions that succeeded.    *)
(* Strings are sequences of characters.                                    *)
(***************************************************************************)
Requests == {1, 2}
NoPath == <<>>
CacheModels == {<<"a">>, <<"a", ":", ":", "b">>}
CachePaths == {NoPath, <<"p">>, <<"b", ":", ":", "p">>}
Devices == {<<"c", "p", "u">>}

(* _utils.py:11-22: the vector file found in the repository. *)
DefaultPersonaVectorPath == <<"p">>

(* _utils.py:27-28 *)
ResolvedPath(path) == IF path = NoPath THEN DefaultPersonaVectorPath ELSE path

(* _utils.py:30: f"{model_name}::{persona_vector_path}::{device}" *)
CacheKey(model, path, device) ==
    model \o <<":", ":">> \o path \o <<":", ":">> \o device

NoArgs == [model |-> <<>>, path |-> NoPath, device |-> <<>>]
KeyOf(args) == CacheKey(args.model, ResolvedPath(args.path), args.device)

InCacheNever(c, k) == FALSE

(* _utils.py:31: key in _ANALYZER_CACHE *)
InCache(c, k) == \E e \in c : e.key = k

(* _utils.py:32: _ANALYZER_CACHE[key] *)
CacheGet(c, k) == (CHOOSE e \in c : e.key = k).analyzer

CachePutIfAbsent(c, k, a) ==
    IF \E e \in c : e.key = k THEN c ELSE c \cup {[key |-> k, analyzer |-> a]}

(* _utils.py:35: _ANALYZER_CACHE[key] = analyzer *)
CachePut(c, k, a) == {e \in c : e.key # k} \cup {[key |-> k, analyzer |-> a]}

NoPut == [key |-> <<>>, analyzer |-> 0]

CacheIdle ==
    /\ cache = {}
    /\ constructions = <<>>
    /\ constructed_with = <<>>
    /\ calls = 0
    /\ last_put = NoPut
    /\ r_pc = [t \in Requests |-> "idle"]
    /\ r_args = [t \in Requests |-> NoArgs]
    /\ r_analyzer = [t \in Requests |-> 0]
    /\ r_held = [t \in Requests |-> 0]
    /\ r_missed = [t \in Requests |-> FALSE]
    /\ r_cache0 = [t \in Requests |-> {}]

(* A request enters get_analyzer (a request that ended may be followed by
   another on the same thread). *)
Call(t) ==
    /\ r_pc[t] \in {"idle", "returned", "raised"}
    /\ calls < MaxCalls
    /\ calls' = calls + 1
    /\ \E m \in CacheModels, p \in CachePaths, d \in Devices :
         r_args' = [r_args EXCEPT ![t] = [model |-> m, path |-> p, device |-> d]]
    /\ r_pc' = [r_pc EXCEPT ![t] = "lookup"]
    /\ r_analyzer' = [r_analyzer EXCEPT ![t] = 0]
    /\ r_held' = [r_held EXCEPT ![t] = 0]
    /\ r_missed' = [r_missed EXCEPT ![t] = FALSE]
    /\ r_cache0' = [r_cache0 EXCEPT ![t] = cache]
    /\ UNCHANGED <<cache, constructions, constructed_with, last_put>>
    /\ UNCHANGED notCache

(* The same, when requests are handled one after the other. *)
SerialCall(t) ==
    /\ \A u \in Requests : r_pc[u] \in {"idle", "returned", "raised"}
    /\ Call(t)

(* _utils.py:23: default_persona_vector_path finds no vector file. *)
DefaultPathMissing(t) ==
    /\ r_pc[t] = "lookup"
    /\ r_args[t].path = NoPath
    /\ r_pc' = [r_pc EXCEPT ![t] = "raised"]
    /\ UNCHANGED <<cache, constructions, constructed_with, calls, last_put, r_args, r_analyzer, r_held,
                   r_missed, r_cache0>>
    /\ UNCHANGED notCache

(* _utils.py:27-32 *)
Lookup(t) ==
    /\ r_pc[t] = "lookup"
    /\ IF InCache(cache, KeyOf(r_args[t]))
       THEN /\ r_held' = [r_held EXCEPT ![t] = CacheGet(cache, KeyOf(r_args[t]))]
            /\ r_pc' = [r_pc EXCEPT ![t] = "returned"]
            /\ UNCHANGED r_missed
       ELSE /\ r_missed' = [r_missed EXCEPT ![t] = TRUE]
            /\ r_pc' = [r_pc EXCEPT ![t] = "construct"]
            /\ UNCHANGED r_held
    /\ UNCHANGED <<cache, constructions, constructed_with, calls, last_put, r_args, r_analyzer, r_cache0>>
    /\ UNCHANGED notCache

(* _utils.py:34: PersonaVectorAnalyzer(...) returns a new instance. *)
Construct(t) ==
    /\ r_pc[t] = "construct"
    /\ constructions' = Append(constructions, KeyOf(r_args[t]))
    /\ constructed_with' = Append(constructed_with,
                                  [r_args[t] EXCEPT !.path = ResolvedPath(r_args[t].path)])
    /\ r_analyzer' = [r_analyzer EXCEPT ![t] = Len(constructions) + 1]
    /\ r_pc' = [r_pc EXCEPT ![t] = "insert"]
    /\ UNCHANGED <<cache, calls, last_put, r_args, r_held, r_missed, r_cache0>>
    /\ UNCHANGED notCache

(* _utils.py:34: PersonaVectorAnalyzer(...) raises. *)
ConstructFails(t) ==
    /\ r_pc[t] = "construct"
    /\ r_pc' = [r_pc EXCEPT ![t] = "raised"]
    /\ UNCHANGED <<cache, constructions, constructed_with, calls, last_put, r_args, r_analyzer, r_held,
                   r_missed, r_cache0>>
    /\ UNCHANGED notCache

(* _utils.py:35-36 *)
Insert(t) ==
    /\ r_pc[t] = "insert"
    /\ cache' = CachePut(cache, KeyOf(r_args[t]), r_analyzer[t])
    /\ last_put' = [key |-> KeyOf(r_args[t]), analyzer |-> r_analyzer[t]]
    /\ r_held' = [r_held EXCEPT ![t] = r_analyzer[t]]
    /\ r_pc' = [r_pc EXCEPT ![t] = "returned"]
    /\ UNCHANGED <<constructions, constructed_with, calls, r_args, r_analyzer, r_missed, r_cache0>>
    /\ UNCHANGED notCache

(* Requests handled one at a time. *)
SerialCacheNext ==
    \E t \in Requests :
        \/ SerialCall(t)
        \/ DefaultPathMissing(t)
        \/ Lookup(t)
        \/ Construct(t)
        \/ ConstructFails(t)
        \/ Insert(t)

(* Requests handled by threads that interleave freely. *)
CacheNext ==
    \E t \in Requests :
        \/ Call(t)
        \/ DefaultPathMissing(t)
        \/ Lookup(t)
        \/ Construct(t)
        \/ ConstructFails(t)
        \/ Insert(t)

-----------------------------------------------------------------------------
(***************************************************************************)
(* One PersonaVectorAnalyzer used for a sequence of operations              *)
(* (score_text, score_multiple_texts, analyze_dataset_file,                *)
(* generate_with_steering), each called when the previous one has ended.   *)
(***************************************************************************)
SessionTexts == {<<1, 2>>, <<3>>}
SessionTextLists == {<<<<3>>, <<1, 2>>>>}
SessionPrompts == {<<1>>}
SessionBudgets == {1}
SessionStrengths == {2}
SessionDirections == {"reduce", "amplify"}
SessionLines ==
    {<<Obj(JStr(<<1>>), JAbsent, JAbsent)>>,
     <<Malformed, Obj(JStr(<<3>>), JAbsent, JAbsent)>>}

(* A call in the history of the analyzer. *)
Operation(name, texts) == [name |-> name, texts |-> texts]

SessIdle ==
    /\ sess_log = <<>>
    /\ sess_ops = <<>>
    /\ sess_vector0 = <<>>

NoOperationRunning == g_pc = "idle" /\ a_pc = "idle"

(* The entry of results a score_text call adds: analyzer.py:100-105. *)
Scored(text) == [text |-> Prefix(text, PreviewLen), score |-> ScoreText(text)]

(* analyzer.py:69-86 score_text(text) returns. *)
CallScoreText ==
    /\ NoOperationRunning
    /\ Len(sess_ops) < MaxOps
    /\ \E text \in SessionTexts :
         /\ sess_log' = Append(sess_log, Scored(text))
         /\ sess_ops' = Append(sess_ops, Operation("score_text", <<text>>))
    /\ UNCHANGED sess_vector0
    /\ UNCHANGED notSess

(* analyzer.py:88-106 score_multiple_texts(texts) returns. *)
CallScoreMultipleTexts ==
    /\ NoOperationRunning
    /\ Len(sess_ops) < MaxOps
    /\ \E texts \in SessionTextLists :
         /\ sess_log' = sess_log \o [i \in 1..Len(texts) |-> Scored(texts[i])]
         /\ sess_ops' = Append(sess_ops, Operation("score_multiple_texts", texts))
    /\ UNCHANGED sess_vector0
    /\ UNCHANGED notSess

(* analyzer.py:82 the forward pass of a score_text call raises. *)
CallScoreTextFails ==
    /\ NoOperationRunning
    /\ Len(sess_ops) < MaxOps
    /\ sess_ops' = Append(sess_ops, Operation("score_text raised", <<>>))
    /\ UNCHANGED <<sess_log, sess_vector0>>
    /\ UNCHANGED notSess

(* analyzer.py:240-263 generate_with_steering is entered. *)
CallGenerateWithSteering ==
    /\ NoOperationRunning
    /\ Len(sess_ops) < MaxOps
    /\ sess_ops' = Append(sess_ops, Operation("generate_with_steering", <<>>))
    /\ g_pc' = "init"
    /\ prompt' \in SessionPrompts
    /\ max_new_tokens' \in SessionBudgets
    /\ steering_strength' \in SessionStrengths
    /\ steer_direction' \in SessionDirections
    /\ UNCHANGED <<persona_vector, lm_head, step, current_ids, generated_tokens,
                   last_hidden, steered_hidden, forward_passes, pass_ids, result,
                   ref_tokens>>
    /\ UNCHANGED <<sess_log, sess_vector0>>
    /\ UNCHANGED <<buildVars, analyzeVars, cliVars, storeVars, cacheVars, httpVars>>

(* generate_with_steering has returned or raised: its frame is gone. *)
GenerateWithSteeringEnds ==
    /\ g_pc \in {"done", "failed"}
    /\ g_pc' = "idle"
    /\ prompt' = <<>>
    /\ max_new_tokens' = 0
    /\ steering_strength' = 0
    /\ steer_direction' = ""
    /\ step' = 0
    /\ current_ids' = <<>>
    /\ generated_tokens' = <<>>
    /\ last_hidden' = <<>>
    /\ steered_hidden' = <<>>
    /\ forward_passes' = 0
    /\ pass_ids' = <<>>
    /\ result' = NoResult
    /\ ref_tokens' = <<>>
    /\ UNCHANGED <<persona_vector, lm_head>>
    /\ UNCHANGED sessVars
    /\ UNCHANGED <<buildVars, analyzeVars, cliVars, storeVars, cacheVars, httpVars>>

(* analyzer.py:110-134 analyze_dataset_file is entered. *)
CallAnalyzeDatasetFile ==
    /\ NoOperationRunning
    /\ Len(sess_ops) < MaxOps
    /\ sess_ops' = Append(sess_ops, Operation("analyze_dataset_file", <<>>))
    /\ a_pc' = "scan"
    /\ lines' \in SessionLines
    /\ UNCHANGED <<line_no, scores, examples_high, examples_medium, examples_low, stats,
                   skip_log, scored_lines, score_errors>>
    /\ UNCHANGED <<sess_log, sess_vector0>>
    /\ UNCHANGED <<buildVars, steerVars, cliVars, storeVars, cacheVars, httpVars>>

(* analyze_dataset_file has returned or raised: its frame is gone. *)
AnalyzeDatasetFileEnds ==
    /\ a_pc \in {"done", "raised"}
    /\ a_pc' = "idle"
    /\ lines' = <<>>
    /\ line_no' = 0
    /\ scores' = <<>>
    /\ examples_high' = <<>>
    /\ examples_medium' = <<>>
    /\ examples_low' = <<>>
    /\ stats' = NoStats
    /\ skip_log' = {}
    /\ scored_lines' = {}
    /\ score_errors' = {}
    /\ UNCHANGED sessVars
    /\ UNCHANGED <<buildVars, steerVars, cliVars, storeVars, cacheVars, httpVars>>

SessionNext ==
    \/ CallScoreText
    \/ CallScoreMultipleTexts
    \/ CallScoreTextFails
    \/ CallGenerateWithSteering
    \/ SteerNext
    \/ GenerateWithSteeringEnds
    \/ CallAnalyzeDatasetFile
    \/ AnalyzeNext
    \/ AnalyzeDatasetFileEnds

-----------------------------------------------------------------------------
(***************************************************************************)
(* The callers of generate_with_steering: the steer-generate command       *)
(* (cli.py:213-258) and the POST /steer handler (fastapi_app.py:82-95).    *)
(* One of them runs, on a vector file that is on disk.                     *)
(***************************************************************************)
EntryPrompts == {<<1>>}
EntryBudgets == {2}
EntryStrengths == {2}
VectorOnDisk ==
    {[path |-> VectorPath(OutputDir, <<"q", "_", "m">>, "sycophancy"),
      content |-> OldVector]}

(* The call generate_with_steering(prompt, max_new_tokens, steering_strength,
   steer_direction) on an analyzer holding the vector. *)
EnterGenerate(analyzer_vector, direction) ==
    /\ g_pc = "idle"
    /\ g_pc' = "init"
    /\ prompt' \in EntryPrompts
    /\ max_new_tokens' \in EntryBudgets
    /\ steering_strength' \in EntryStrengths
    /\ steer_direction' = direction
    /\ persona_vector' = analyzer_vector
    /\ UNCHANGED <<lm_head, step, current_ids, generated_tokens, last_hidden,
                   steered_hidden, forward_passes, pass_ids, result, ref_tokens>>

SteerCommandStart ==
    /\ h_pc = "idle"
    /\ CliStartOf({"steer-generate"})

(* cli.py:246-251 *)
CommandCallsGenerate ==
    /\ c_pc = "run"
    /\ c_cmd = "steer-generate"
    /\ EnterGenerate(c_analyzer, c_direction)
    /\ c_pc' = "core"
    /\ UNCHANGED <<c_cmd, c_model, c_trait, c_direction, c_dataset_exists, c_output,
                   c_echo, c_raised, c_fail, c_analyzer, c_exit>>
    /\ UNCHANGED notCliSteer

(* cli.py:253-254: the result is printed and the command function returns. *)
CommandGenerateReturns ==
    /\ c_pc = "core"
    /\ g_pc = "done"
    /\ c_echo' = c_echo \cup {"result"}
    /\ c_exit' = ReturnExit
    /\ c_pc' = "done"
    /\ UNCHANGED <<c_cmd, c_model, c_trait, c_direction, c_dataset_exists, c_output,
                   c_raised, c_fail, c_analyzer>>
    /\ UNCHANGED notCli

CommandGenerateRaises ==
    /\ c_pc = "core"
    /\ g_pc = "failed"
    /\ RaiseInTry("core")
    /\ UNCHANGED <<c_cmd, c_model, c_trait, c_direction, c_dataset_exists, c_output,
                   c_analyzer, c_exit>>
    /\ UNCHANGED notCli

(* fastapi_app.py:30-36, 82-83: the body is parsed into a SteerRequest, whose
   steer_direction is any string. *)
HttpSteer ==
    /\ h_pc = "idle"
    /\ c_pc = "idle"
    /\ h_direction' \in Directions
    /\ h_pc' = "get_analyzer"
    /\ UNCHANGED <<h_status, h_out>>
    /\ UNCHANGED steerVars
    /\ UNCHANGED notHttp

(* fastapi_app.py:84-85, 89-94: get_analyzer returns and the handler calls
   generate_with_steering with the fields of the request. *)
HttpCallsGenerate ==
    /\ h_pc = "get_analyzer"
    /\ \E f \in fs : EnterGenerate(f.content, h_direction)
    /\ h_pc' = "generate"
    /\ UNCHANGED <<h_direction, h_status, h_out>>
    /\ UNCHANGED notHttp

(* fastapi_app.py:86-87 *)
HttpGetAnalyzerFails ==
    /\ h_pc = "get_analyzer"
    /\ h_status' = <<400>>
    /\ h_pc' = "done"
    /\ UNCHANGED <<h_direction, h_out>>
    /\ UNCHANGED steerVars
    /\ UNCHANGED notHttp

(* fastapi_app.py:95 *)
HttpReturns ==
    /\ h_pc = "generate"
    /\ g_pc = "done"
    /\ h_out' = result
    /\ h_status' = <<200>>
    /\ h_pc' = "done"
    /\ UNCHANGED h_direction
    /\ UNCHANGED steerVars
    /\ UNCHANGED notHttp

(* generate_with_steering is called outside the try: what it raises leaves
   the handler, and the framework answers 500. *)
HttpRaises ==
    /\ h_pc = "generate"
    /\ g_pc = "failed"
    /\ h_status' = <<500>>
    /\ h_pc' = "done"
    /\ UNCHANGED <<h_direction, h_out>>
    /\ UNCHANGED steerVars
    /\ UNCHANGED notHttp

EntryNext ==
    \/ SteerCommandStart
    \/ CheckDirection
    \/ CheckVector
    \/ ConstructAnalyzer
    \/ ConstructAnalyzerFails
    \/ CommandCallsGenerate
    \/ CommandGenerateReturns
    \/ CommandGenerateRaises
    \/ CliExcept
    \/ HttpSteer
    \/ HttpCallsGenerate
    \/ HttpGetAnalyzerFails
    \/ HttpReturns
    \/ HttpRaises
    \/ SteerNext

-----------------------------------------------------------------------------
(***************************************************************************)
(* Specifications: one per operation, the other operations not started.    *)
(***************************************************************************)
HttpIdle ==
    /\ h_pc = "idle"
    /\ h_direction = ""
    /\ h_status = <<>>
    /\ h_out = NoResult

(* No build-vector run; the vector files on disk are given. *)
BuildIdleOn(files) ==
    /\ b_pc = "idle"
    /\ model_name = <<>>
    /\ trait_config = [stem |-> "", content |-> NoTraitData]
    /\ trait = NoTrait
    /\ q_idx = 0
    /\ pos_vec = <<>>
    /\ pos_vecs = <<>>
    /\ neg_vecs = <<>>
    /\ extract_log = <<>>
    /\ log_at_reduce = <<>>
    /\ vector = <<>>
    /\ fs0 = files
    /\ fs = files
    /\ exit_code = <<>>
    /\ fail_stage = ""

BuildIdle == BuildIdleOn({})

SteerIdle ==
    /\ g_pc = "idle"
    /\ prompt = <<>>
    /\ max_new_tokens = 0
    /\ steering_strength = 0
    /\ steer_direction = ""
    /\ lm_head \in {CHOOSE W \in LmHeads : TRUE}
    /\ step = 0
    /\ current_ids = <<>>
    /\ generated_tokens = <<>>
    /\ last_hidden = <<>>
    /\ steered_hidden = <<>>
    /\ forward_passes = 0
    /\ pass_ids = <<>>
    /\ result = NoResult
    /\ ref_tokens = <<>>

AnalyzeIdle ==
    /\ a_pc = "idle"
    /\ lines = <<>>
    /\ line_no = 0
    /\ scores = <<>>
    /\ examples_high = <<>>
    /\ examples_medium = <<>>
    /\ examples_low = <<>>
    /\ stats = NoStats
    /\ skip_log = {}
    /\ scored_lines = {}
    /\ score_errors = {}

(* The persona vectors an analyzer scores with. *)
AnalyzerVectors == {<<1, 0>>, <<-1, 1>>}

BuildSpecInit ==
    /\ BuildInit
    /\ SteerIdle
    /\ persona_vector = <<0, 0>>
    /\ AnalyzeIdle
    /\ CliIdle
    /\ StoreIdle
    /\ CacheIdle
    /\ SessIdle
    /\ HttpIdle

SteerSpecInit ==
    /\ SteerInit
    /\ BuildIdle
    /\ AnalyzeIdle
    /\ CliIdle
    /\ StoreIdle
    /\ CacheIdle
    /\ SessIdle
    /\ HttpIdle

AnalyzeSpecInit ==
    /\ AnalyzeInit
    /\ BuildIdle
    /\ SteerIdle
    /\ persona_vector \in AnalyzerVectors
    /\ CliIdle
    /\ StoreIdle
    /\ CacheIdle
    /\ SessIdle
    /\ HttpIdle

BuildSpec == BuildSpecInit /\ [][BuildNext]_vars

SteerSpec == SteerSpecInit /\ [][SteerNext]_vars

(* The loop runs on the calling thread: a step that can be taken is taken. *)
SteerFairSpec == SteerSpec /\ WF_vars(SteerNext)

AnalyzeSpec == AnalyzeSpecInit /\ [][AnalyzeNext]_vars

(* The analysis of a file longer than the stored examples, no scoring call
   raising. *)
LongFileSpecInit ==
    /\ AnalyzeInitOn(LongFiles)
    /\ BuildIdle
    /\ SteerIdle
    /\ persona_vector \in AnalyzerVectors
    /\ CliIdle
    /\ StoreIdle
    /\ CacheIdle
    /\ SessIdle
    /\ HttpIdle

LongFileNext ==
    \/ AnalyzeLine
    \/ AnalyzeFinish

LongFileSpec == LongFileSpecInit /\ [][LongFileNext]_vars

(* A build-vector run, then one of the commands that use the vector. *)
CommandNext ==
    \/ BuildNext
    \/ CliNext

CommandSpec == BuildSpecInit /\ [][CommandNext]_vars

StoreSpecInit ==
    /\ StoreIdle
    /\ BuildIdle
    /\ SteerIdle
    /\ persona_vector = <<0, 0>>
    /\ AnalyzeIdle
    /\ CliIdle
    /\ CacheIdle
    /\ SessIdle
    /\ HttpIdle

StoreSpec == StoreSpecInit /\ [][StoreNext]_vars

CacheSpecInit ==
    /\ CacheIdle
    /\ BuildIdle
    /\ SteerIdle
    /\ persona_vector = <<0, 0>>
    /\ AnalyzeIdle
    /\ CliIdle
    /\ StoreIdle
    /\ SessIdle
    /\ HttpIdle

(* One request at a time (a single thread, or callers serialized from outside). *)
SerialCacheSpec == CacheSpecInit /\ [][SerialCacheNext]_vars

(* Requests on threads of their own (the worker threads of the Gradio app). *)
CacheSpec == CacheSpecInit /\ [][CacheNext]_vars

(* An analyzer has been constructed; no operation was called yet. *)
SessionSpecInit ==
    /\ SteerIdle
    /\ persona_vector \in AnalyzerVectors
    /\ sess_vector0 = persona_vector
    /\ sess_log = <<>>
    /\ sess_ops = <<>>
    /\ AnalyzeIdle
    /\ BuildIdle
    /\ CliIdle
    /\ StoreIdle
    /\ CacheIdle
    /\ HttpIdle

SessionSpec == SessionSpecInit /\ [][SessionNext]_vars

EntrySpecInit ==
    /\ BuildIdleOn(VectorOnDisk)
    /\ SteerIdle
    /\ persona_vector = <<0, 0>>
    /\ AnalyzeIdle
    /\ CliIdle
    /\ StoreIdle
    /\ CacheIdle
    /\ SessIdle
    /\ HttpIdle

EntrySpec == EntrySpecInit /\ [][EntryNext]_vars

Init == BuildSpecInit \/ SteerSpecInit \/ AnalyzeSpecInit \/ StoreSpecInit \/ CacheSpecInit
            \/ SessionSpecInit \/ EntrySpecInit \/ LongFileSpecInit

Next == BuildNext \/ SteerNext \/ AnalyzeNext \/ CliNext \/ StoreNext \/ CacheNext
            \/ SessionNext \/ EntryNext

Spec == Init /\ [][Next]_vars

-----------------------------------------------------------------------------
(***************************************************************************)
(* Properties of build-vector                                              *)
(***************************************************************************)
MeansComputed == vector # <<>>

(* C1: once build_persona_vector has computed the means, it has made exactly
   N positive and N negative extractions for the N >= 1 probe questions, a
   positive then a negative one per question, in the configured order and at
   the configured layer, all of them before the means were computed. *)
C1_ExtractionsBeforeMeans ==
    MeansComputed =>
        LET N == Len(trait.probe_questions)
        IN  /\ N >= 1
            /\ Len(log_at_reduce) = 2 * N
            /\ extract_log = log_at_reduce
            /\ \A k \in 1..N :
                 /\ log_at_reduce[2 * k - 1] =
                        [framing |-> "pos", question |-> trait.probe_questions[k],
                         layer |-> trait.layer_index]
                 /\ log_at_reduce[2 * k] =
                        [framing |-> "neg", question |-> trait.probe_questions[k],
                         layer |-> trait.layer_index]
            /\ Len(pos_vecs) = N
            /\ Len(neg_vecs) = N

C1_Witness ==
    /\ b_pc = "done"
    /\ trait.probe_questions = <<1, 2, 0>>
    /\ Len(extract_log) = 6

(* C2: the vector file is written only after build_persona_vector has
   returned; when config loading, model loading or an extraction (or the
   reduction) fails, the files on disk are those the command started with
   and the exit status is 1; exit status 0 means the file holds the vector. *)
C2_SaveOnlyAfterBuild ==
    /\ fs # fs0 => MeansComputed /\ b_pc \in {"done", "failed"}
    /\ fail_stage \in {"config", "model", "extract", "reduce"} =>
           fs = fs0 /\ exit_code = <<1>>
    /\ b_pc = "failed" => exit_code = <<1>>
    /\ exit_code = <<0>> =>
           /\ b_pc = "done"
           /\ [path |-> VectorPath(OutputDir, model_name, trait_config.stem),
               content |-> vector] \in fs

C2_Witness ==
    /\ b_pc = "failed"
    /\ fail_stage = "extract"
    /\ Len(extract_log) = 4
    /\ fs0 # {}
    /\ fs = fs0


(* pos_mean - neg_mean of core.py:105-108, once the extractions are made. *)
RawDifference == VecSub(MeanVec(pos_vecs), MeanVec(neg_vecs))

(* The 0.01 of the normalization checks, in fixed point. *)
Tolerance == Scale \div 100
UnitNorm(v) == Norm(v) >= Scale - Tolerance /\ Norm(v) <= Scale + Tolerance

Persisted ==
    b_pc = "done" /\
    [path |-> VectorPath(OutputDir, model_name, trait_config.stem),
     content |-> vector] \in fs

(* C22 as stated: the vector returned by build_persona_vector, and persisted
   by build-vector, has a norm within 0.01 of 1.0 whenever the norm of the
   raw difference is not within epsilon of zero. *)
C22_UnitNormUnlessWithinEpsilon ==
    MeansComputed /\ Norm(RawDifference) > Epsilon => UnitNorm(vector)

(* C22, amended: the vector is the raw difference d divided by |d| + epsilon,
   so its norm is |d| / (|d| + epsilon), below 1 always; it is within 0.01 of
   1.0 whenever |d| >= 99 * epsilon, and the vector persisted is this one. *)
C22_UnitNormFrom99Epsilon ==
    MeansComputed =>
        /\ vector = Normalize(RawDifference)
        /\ Norm(vector) <= Scale
        /\ Norm(RawDifference) >= 99 * Epsilon => UnitNorm(vector)
        /\ b_pc = "done" => Persisted

C22_Witness ==
    /\ Persisted
    /\ trait.probe_questions = <<1, 2>>
    /\ Norm(RawDifference) >= 99 * Epsilon
    /\ UnitNorm(vector)
    /\ vector # <<Scale, 0>>

(* C23: a TraitConfig made from data without layer_index has layer_index -1,
   a given layer_index is kept as it is, and every extraction that
   build_persona_vector makes, 2N of them when it completes, is made at the
   layer_index of the TraitConfig. *)
C23_LayerIndexDefaultAndUse ==
    b_pc \notin {"idle", "load_config"} /\ trait_config.content.valid =>
        /\ trait_config.content.layer_index = <<>> =>
               trait.layer_index = DefaultLayerIndex
        /\ trait_config.content.layer_index # <<>> =>
               trait.layer_index = trait_config.content.layer_index[1]
        /\ \A k \in 1..Len(extract_log) : extract_log[k].layer = trait.layer_index
        /\ \A k \in 1..Len(pos_vecs) :
               /\ pos_vecs[k] = CaptureHiddenStates(BuildPromptPairs[1],
                                    trait.probe_questions[k], trait.layer_index)
               /\ neg_vecs[k] = CaptureHiddenStates(BuildPromptPairs[2],
                                    trait.probe_questions[k], trait.layer_index)
        /\ MeansComputed => Len(extract_log) = 2 * Len(trait.probe_questions)

C23_Witness ==
    /\ b_pc = "done"
    /\ trait_config.content.layer_index = <<>>
    /\ trait.layer_index = -1
    /\ trait.probe_questions = <<1, 2>>
    /\ Len(extract_log) = 4

(* C27: when the raw difference is the zero vector, build_persona_vector
   raises nothing (the reduction fails on an empty list only) and returns
   the zero vector, and build-vector persists it as it does any vector. *)
C27_ZeroDifferenceIsReturned ==
    /\ fail_stage = "reduce" => pos_vecs = <<>>
    /\ pos_vecs # <<>> /\ b_pc \in {"save", "done"} /\ RawDifference = <<0, 0>> =>
           /\ vector = <<0, 0>>
           /\ fail_stage = ""
    /\ b_pc = "done" /\ RawDifference = <<0, 0>> =>
           /\ Persisted
           /\ exit_code = <<0>>

C27_Witness ==
    /\ b_pc = "done"
    /\ trait.probe_questions = <<0, 0>>
    /\ pos_vecs = neg_vecs
    /\ vector = <<0, 0>>
    /\ Persisted

(* A TraitConfig object exists: load_trait_config has returned it. *)
TraitLoaded == b_pc \notin {"idle", "load_config"} /\ trait.valid

(* C20 as stated: every TraitConfig that load_trait_config produced has the
   slot in both of its templates and one probe question at least. *)
C20_TraitConfigInvariant ==
    TraitLoaded =>
        /\ HasSlot(trait.positive_prompt_template)
        /\ HasSlot(trait.negative_prompt_template)
        /\ Len(trait.probe_questions) >= 1

(* C20, amended: load_trait_config returns whatever well-formed configuration
   the file holds, checking neither condition.  A template without the slot
   is used as the system prompt as it stands, and the build can succeed with
   it; a configuration without probe questions is loaded too, but the build
   fails on it before a vector is computed, writes nothing and exits with
   status 1. *)
C20_OnlyEmptyQuestionsUnusable ==
    /\ b_pc \notin {"idle", "load_config"} /\ trait_config.content.valid =>
           trait = ConstructTraitConfig(trait_config.content)
    /\ TraitLoaded =>
           /\ ~HasSlot(trait.positive_prompt_template) =>
                  BuildPromptPairs[1] = trait.positive_prompt_template
           /\ ~HasSlot(trait.negative_prompt_template) =>
                  BuildPromptPairs[2] = trait.negative_prompt_template
           /\ HasSlot(trait.positive_prompt_template) =>
                  BuildPromptPairs[1] = <<"pos", trait.description>>
           /\ HasSlot(trait.negative_prompt_template) =>
                  BuildPromptPairs[2] = <<"neg", trait.description>>
           /\ Len(trait.probe_questions) = 0 =>
                  /\ b_pc \in {"load_model", "reduce", "failed"}
                  /\ ~MeansComputed
                  /\ fs = fs0
                  /\ exit_code # <<0>>
                  /\ b_pc = "failed" => fail_stage \in {"model", "reduce"}

C20_Witness ==
    /\ b_pc = "done"
    /\ exit_code = <<0>>
    /\ trait.positive_prompt_template = <<"pos">>
    /\ trait.negative_prompt_template = <<"neg">>
    /\ trait.probe_questions = <<1>>
    /\ extract_log # <<>>
    /\ vector # <<0, 0>>

-----------------------------------------------------------------------------
(***************************************************************************)
(* Properties of generate_with_steering                                    *)
(***************************************************************************)
Returned == g_pc = "done"
Terminated == g_pc \in {"done", "failed"}
Budget == Max(max_new_tokens, 0)
LastToken(tokens) == tokens[Len(tokens)]

(* C3 as stated: a returned generation has tokens_generated <= max_new_tokens
   and took at most max_new_tokens forward passes. *)
C3_WithinMaxNewTokens ==
    Returned =>
        /\ result.tokens_generated <= max_new_tokens
        /\ forward_passes <= max_new_tokens

C3_PassesWithinBudget ==
    /\ forward_passes <= Budget
    /\ forward_passes = step
    /\ g_pc # "failed" => Len(generated_tokens) = forward_passes
    /\ Returned =>
           /\ result.tokens_generated <= Budget
           /\ result.tokens_generated = forward_passes
           /\ max_new_tokens <= 0 =>
                  forward_passes = 0 /\ result.generated_text = <<>>

(* C3, amended: generate_with_steering terminates (by returning, or by raising
   when a forward pass raises) for every prompt and every max_new_tokens = M;
   it runs at most max(M, 0) forward passes, one per generated token, and a
   returned result has tokens_generated <= max(M, 0); with M <= 0 it runs no
   forward pass and returns an empty generation. *)
C3_TerminatesWithinBudget == []C3_PassesWithinBudget /\ <>Terminated

C3_Witness ==
    /\ Returned
    /\ max_new_tokens = 3
    /\ forward_passes = 3
    /\ result.tokens_generated = 3

(* C4 as stated: in every result either tokens_generated == max_new_tokens or
   the last generated token is EOS, and no earlier generated token is EOS. *)
C4_StopsAtEosOrMaxNewTokens ==
    Returned =>
        /\ \/ result.tokens_generated = max_new_tokens
           \/ /\ generated_tokens # <<>>
              /\ LastToken(generated_tokens) = EosTokenId
        /\ \A k \in 1..(Len(generated_tokens) - 1) : generated_tokens[k] # EosTokenId

(* C4, amended: the loop goes on exactly while the token just chosen is not
   EOS and fewer than max_new_tokens tokens have been generated; in every
   result either tokens_generated == max(max_new_tokens, 0) or the last
   generated token is EOS, and no earlier generated token is EOS. *)
C4_StopsAtEosOrBudget ==
    /\ g_pc = "loop" =>
           /\ Len(generated_tokens) < max_new_tokens
           /\ generated_tokens = <<>> \/ LastToken(generated_tokens) # EosTokenId
    /\ g_pc \in {"return", "done"} =>
           \/ Len(generated_tokens) = Budget
           \/ /\ generated_tokens # <<>>
              /\ LastToken(generated_tokens) = EosTokenId
    /\ Returned => result.tokens_generated = Len(generated_tokens)
    /\ \A k \in 1..(Len(generated_tokens) - 1) : generated_tokens[k] # EosTokenId

C4_Witness ==
    /\ Returned
    /\ max_new_tokens = 3
    /\ result.tokens_generated = 2
    /\ LastToken(generated_tokens) = EosTokenId

(* C5: with steering_strength = 0 the tokens generated are those of the
   unsteered greedy run on the same model and prompt, whatever the persona
   vector and the direction. *)
C5_ZeroStrengthIsUnsteered ==
    steering_strength = 0 => generated_tokens = ref_tokens

C5_Witness ==
    /\ Returned
    /\ steering_strength = 0
    /\ steer_direction = "amplify"
    /\ persona_vector = <<-1, 1>>
    /\ Len(generated_tokens) = 3
    /\ generated_tokens = ref_tokens

(* C6: at every step "reduce" projects h - s*v and "amplify" projects h + s*v;
   for the same h, v and s the two perturbations are negations of each other,
   and reduce at strength s is amplify at strength -s. *)
C6_OppositePerturbations ==
    last_hidden # <<>> =>
        LET h == last_hidden
            sv == VecScale(steering_strength, persona_vector)
            reduced == Steer(h, steering_strength, persona_vector, "reduce")
            amplified == Steer(h, steering_strength, persona_vector, "amplify")
        IN  /\ steer_direction = "reduce" => steered_hidden = VecSub(h, sv)
            /\ steer_direction = "amplify" => steered_hidden = VecAdd(h, sv)
            /\ VecAdd(VecSub(reduced, h), VecSub(amplified, h)) = <<0, 0>>
            /\ reduced = Steer(h, 0 - steering_strength, persona_vector, "amplify")

C6_Witness ==
    /\ Returned
    /\ last_hidden # <<>>
    /\ steer_direction = "reduce"
    /\ steering_strength = 2
    /\ persona_vector = <<-1, 1>>
    /\ steered_hidden = VecAdd(last_hidden, <<2, -2>>)
    /\ generated_tokens # ref_tokens


(* C24: from the start of the loop on, the running id sequence is the
   tokenized prompt followed by the tokens generated so far, in order; every
   forward pass is given the whole running sequence as it stands; the token
   it yields is the argmax of the logits of the steered last-position hidden
   vector, and it is appended once to the sequence and to the generated
   tokens. *)
C24_RunningSequenceIsPromptPlusGenerated ==
    g_pc \in {"loop", "return", "done", "failed"} =>
        /\ current_ids = prompt \o generated_tokens
        /\ Len(current_ids) = Len(prompt) + Len(generated_tokens)
        /\ g_pc # "failed" => Len(generated_tokens) = forward_passes
        /\ g_pc = "failed" =>
               Len(generated_tokens) = forward_passes - 1 /\ pass_ids = current_ids
        /\ g_pc # "failed" /\ forward_passes > 0 =>
               /\ pass_ids = prompt \o SubSeq(generated_tokens, 1,
                                                Len(generated_tokens) - 1)
               /\ current_ids = Append(pass_ids, LastToken(generated_tokens))
        /\ generated_tokens # <<>> =>
               /\ steered_hidden = Steer(last_hidden, steering_strength,
                                          persona_vector, steer_direction)
               /\ LastToken(generated_tokens) = NextTokenId(lm_head, steered_hidden)

C24_Witness ==
    /\ Returned
    /\ prompt = <<0, 1>>
    /\ generated_tokens = <<1, 0, 1>>
    /\ current_ids = <<0, 1, 1, 0, 1>>
    /\ pass_ids = <<0, 1, 1, 0>>
    /\ steered_hidden # last_hidden
    /\ LastToken(generated_tokens) # NextTokenId(lm_head, last_hidden)

(* The text of the tokens chosen: all of them but a closing end-of-sequence
   token, which has no text. *)
TextOfChosen ==
    IF generated_tokens # <<>> /\ LastToken(generated_tokens) = EosTokenId
    THEN SubSeq(generated_tokens, 1, Len(generated_tokens) - 1)
    ELSE generated_tokens

(* C25: a returned result holds as generated_text the text of the newly
   generated tokens only, as full_output the prompt followed by
   generated_text, as tokens_generated the number of tokens chosen (an
   end-of-sequence token that ended the generation included), and as
   steering_strength and steer_direction the arguments passed. *)
C25_ResultFields ==
    Returned =>
        /\ result.generated_text = TextOfChosen
        /\ result.full_output = prompt \o result.generated_text
        /\ result.tokens_generated = Len(generated_tokens)
        /\ result.tokens_generated = forward_passes
        /\ generated_tokens # <<>> /\ LastToken(generated_tokens) = EosTokenId =>
               result.tokens_generated = Len(result.generated_text) + 1
        /\ result.steering_strength = steering_strength
        /\ result.steer_direction = steer_direction

C25_Witness ==
    /\ Returned
    /\ prompt = <<0, 1>>
    /\ generated_tokens = <<1, 0, EosTokenId>>
    /\ result.generated_text = <<1, 0>>
    /\ result.full_output = <<0, 1, 1, 0>>
    /\ result.tokens_generated = 3
    /\ result.steering_strength = 2
    /\ result.steer_direction = "reduce"

AsAmplify ==
    Steer(last_hidden, steering_strength, persona_vector, "amplify")

(* C30: generate_with_steering rejects no steer_direction: with any value
   other than "reduce" every token is the one "amplify" gives, and the value
   is returned as passed.  A value outside reduce and amplify is refused by
   the steer-generate command, before an analyzer is constructed, and is
   passed on as it is by the POST /steer handler. *)
C30_OnlyCommandRejectsDirection ==
    /\ generated_tokens # <<>> /\ steer_direction # "reduce" =>
           /\ steered_hidden = AsAmplify
           /\ LastToken(generated_tokens) = NextTokenId(lm_head, AsAmplify)
    /\ Returned => result.steer_direction = steer_direction
    /\ c_cmd = "steer-generate" /\ c_direction \notin {"reduce", "amplify"} =>
           /\ c_pc \in {"check_direction", "except", "failed"}
           /\ c_analyzer = <<>>
           /\ g_pc = "idle"
           /\ c_pc # "check_direction" => c_fail = "direction"
           /\ c_pc = "failed" => c_exit = <<1>>
    /\ c_pc = "core" => steer_direction = c_direction
    /\ h_pc = "generate" => steer_direction = h_direction
    /\ h_status = <<200>> =>
           h_out = result /\ Returned /\ h_out.steer_direction = h_direction
    /\ h_status = <<400>> => g_pc = "idle"
    /\ h_status = <<500>> => g_pc = "failed" /\ forward_passes > 0

C30_Witness ==
    /\ h_status = <<200>>
    /\ h_direction = "sideways"
    /\ h_out.steer_direction = "sideways"
    /\ h_out.tokens_generated = 2
    /\ steered_hidden = AsAmplify
    /\ LastToken(generated_tokens) = NextTokenId(lm_head, AsAmplify)
    /\ LastToken(generated_tokens) #
           NextTokenId(lm_head, Steer(last_hidden, steering_strength,
                                      persona_vector, "reduce"))

-----------------------------------------------------------------------------
(***************************************************************************)
(* Properties of analyze_dataset_file                                      *)
(***************************************************************************)
Analyzed == a_pc = "done"

(* A valid record: a JSON object with a non-empty string under "text". *)
IsValidRecord(line) ==
    line.kind = "object" /\ line.text.t = "str" /\ Len(line.text.v) > 0

(* A bad record: a line that fails to parse, or one that yields an empty or a
   non-string text value. *)
IsBadRecord(line) ==
    \/ line.kind # "object"
    \/ ~(ExtractText(line).t = "str" /\ Len(ExtractText(line).v) > 0)

CountLines(P(_)) == Cardinality({i \in 1..Len(lines) : P(lines[i])})

OnlyValidAndMalformed ==
    \A i \in 1..Len(lines) : IsValidRecord(lines[i]) \/ lines[i] = Malformed

(* C7: for a file of K valid records interleaved with malformed lines (the
   model raising nothing), the analysis ends with a result whose
   total_examples == K. *)
C7_ReportsValidRecordCount ==
    a_pc \in {"done", "raised"} /\ lines # <<>> /\ OnlyValidAndMalformed
        /\ score_errors = {} =>
            a_pc = "done" /\ stats.total_examples = CountLines(IsValidRecord)

(* What does hold of the count: every result that is returned counts exactly
   the records that were scored, K less those whose scoring raised. *)
ReturnedCountIsScoredRecords ==
    Analyzed /\ OnlyValidAndMalformed =>
        /\ stats.total_examples = CountLines(IsValidRecord) - Cardinality(score_errors)
        /\ stats.total_examples = Cardinality(scored_lines)

(* C8: every record read so far that fails to parse, or whose text value is
   empty or not a string, was skipped (not scored) and logged. *)
C8_BadRecordsSkippedAndLogged ==
    \A i \in 0..(line_no - 1) :
        IsBadRecord(lines[i + 1]) => i \notin scored_lines /\ i \in skip_log

(* C9: a file holding bad records never makes analyze_dataset_file raise. *)
C9_BadRecordsNeverAbort ==
    ~(a_pc = "raised" /\ \E i \in 1..Len(lines) : IsBadRecord(lines[i]))

(* C10: every example of high_trait_examples has a score >= percentile_90 and
   every example of low_trait_examples a score <= percentile_10. *)
C10_ExamplesWithinPercentiles ==
    Analyzed =>
        /\ \A k \in 1..Len(stats.high_trait_examples) :
               10 * stats.high_trait_examples[k].score >= stats.percentile_90_x10
        /\ \A k \in 1..Len(stats.low_trait_examples) :
               10 * stats.low_trait_examples[k].score <= stats.percentile_10_x10

(* C11: a runtime error of the model raised by score_text while a record is
   scored is not recovered: once a scoring call has raised, the analysis
   neither goes on reading lines nor returns statistics. *)
C11_RuntimeErrorsPropagate ==
    ~(score_errors # {} /\ a_pc \in {"scan", "done"})


(* C19: every returned analysis (one record scored at least) reports
   min_score <= median_score <= max_score and percentile_10 <= percentile_90. *)
C19_OrderedStatistics ==
    Analyzed =>
        /\ stats.total_examples >= 1
        /\ stats.min_score <= stats.median_score
        /\ stats.median_score <= stats.max_score
        /\ stats.percentile_10_x10 <= stats.percentile_90_x10
        /\ 10 * stats.min_score <= stats.percentile_10_x10
        /\ stats.percentile_90_x10 <= 10 * stats.max_score

C19_Witness ==
    /\ Analyzed
    /\ stats.total_examples = 3
    /\ scores = <<3, 1, 2>>
    /\ stats.min_score = 1
    /\ stats.median_score = 2
    /\ stats.max_score = 3
    /\ stats.percentile_10_x10 < stats.percentile_90_x10

(* The value under the first of the keys text, content, instruction that the
   object holds; the string of the whole object when it holds none of them. *)
FirstExposed(obj) ==
    IF obj.text.t # "absent" THEN obj.text
    ELSE IF obj.content.t # "absent" THEN obj.content
    ELSE IF obj.instruction.t # "absent" THEN obj.instruction
    ELSE StrOfObj(obj)

(* The position among the scored records of the record read from line i. *)
ScoredRank(i) == Cardinality({j \in scored_lines : j <= i})

(* C21: the text scored for a record is the value of the first of the keys
   text, content, instruction present in the object, and the stringified
   object only when none of the three keys is present. *)
C21_TextFromFirstExposedKey ==
    \A i \in scored_lines :
        LET obj == lines[i + 1]
        IN  /\ ExtractText(obj) = FirstExposed(obj)
            /\ ScoredRank(i) <= StoredExamples =>
                   examples_high[ScoredRank(i)].text
                       = Prefix(FirstExposed(obj).v, PreviewLen)

(* The line the k-th scored record was read from, and its example. *)
ScoredLine(k) == CHOOSE i \in scored_lines : ScoredRank(i) = k
ExampleOfScored(k) ==
    Example(ExtractText(lines[ScoredLine(k) + 1]).v, scores[k])

BucketOf(score) ==
    IF 10 * score >= stats.percentile_90_x10 THEN "high"
    ELSE IF 10 * score <= stats.percentile_10_x10 THEN "low"
    ELSE "medium"

Holds(bucket, example) == \E j \in 1..Len(bucket) : bucket[j] = example

(* C26: in a returned analysis every one of the first min(K, 100) scored
   records is held by exactly one of the buckets high, low and medium, the
   one its score selects against the 90th and 10th percentiles, and no
   bucket holds more entries than these records. *)
C26_FirstHundredBucketedOnce ==
    Analyzed =>
        /\ \A k \in 1..Min(Len(scores), BucketScan) :
               LET example == ExampleOfScored(k)
                   where == BucketOf(scores[k])
               IN  /\ Holds(examples_high, example) <=> where = "high"
                   /\ Holds(examples_low, example) <=> where = "low"
                   /\ Holds(examples_medium, example) <=> where = "medium"
        /\ Len(examples_high) + Len(examples_medium) + Len(examples_low)
               = Min(Len(scores), BucketScan)

-----------------------------------------------------------------------------
(***************************************************************************)
(* Properties of the commands                                              *)
(***************************************************************************)
(* The messages that tell the user what to do about a missing file. *)
Remediations == {"first run build-vector"}

(* C12: a command that failed because the vector file (or, for
   analyze-dataset, the dataset file) is absent has exited with a non-zero
   status and has printed a suggested remediation. *)
C12_MissingArtifactRemediation ==
    c_pc = "failed" /\ c_fail \in {"vector", "dataset"} =>
        c_exit = <<1>> /\ c_echo \cap Remediations # {}

(* C13: build-vector, score-text, analyze-dataset and steer-generate end with
   exit status 0 exactly when the command ran to completion, and with exit
   status 1 on every failure path: a missing vector or dataset, an invalid
   direction, an exception of the core, the command's own typer.Exit raised
   inside its try block. *)
C13_ExitZeroIffCompleted ==
    /\ exit_code = <<0>> <=> b_pc = "done"
    /\ exit_code = <<1>> <=> b_pc = "failed"
    /\ fail_stage # "" <=> b_pc = "failed"
    /\ c_exit = <<0>> <=> c_pc = "done"
    /\ c_exit = <<1>> <=> c_pc = "failed"
    /\ c_fail # "" <=> c_pc \in {"except", "failed"}
    /\ c_pc = "done" =>
           /\ Exists(fs, ResolvedVectorPath)
           /\ c_analyzer # <<>>
           /\ "result" \in c_echo
           /\ c_cmd = "steer-generate" => c_direction \in {"reduce", "amplify"}
           /\ c_cmd = "analyze-dataset" => c_dataset_exists
    /\ c_pc = "failed" /\ c_raised = "Exit" => c_fail \in {"direction", "vector", "dataset"}

C13_Witness ==
    /\ c_pc = "failed"
    /\ c_cmd = "steer-generate"
    /\ c_raised = "Exit"
    /\ c_fail = "direction"
    /\ c_exit = <<1>>
    /\ b_pc = "done"
    /\ exit_code = <<0>>

(* C14 as stated: after a successful build for model M from a config whose
   trait name (its name field) is T, a command for the same M and T resolves
   the path the vector was saved at and finds the vector. *)
C14_NamedVectorIsFound ==
    exit_code = <<0>> /\ c_pc # "idle" /\ c_model = model_name /\ c_trait = trait.name =>
        /\ [path |-> ResolvedVectorPath, content |-> vector] \in fs
        /\ c_fail # "vector"

(* C14, amended: the vector built for model M from the config file whose base
   name is T is saved at <output dir>/<M with "/" replaced by "_">/<T>.pt,
   which is the path the commands resolve for the same M and T: the command
   finds the file and its analyzer loads the vector that was built. *)
C14_VectorOfConfigFileIsFound ==
    exit_code = <<0>> =>
        /\ [path |-> [dir |-> OutputDir, model_dir |-> ReplaceSlash(model_name),
                      file |-> TraitNameOf(trait_config)],
            content |-> vector] \in fs
        /\ c_pc # "idle" /\ c_model = model_name /\ c_trait = TraitNameOf(trait_config) =>
               /\ [path |-> ResolvedVectorPath, content |-> vector] \in fs
               /\ c_fail # "vector"
               /\ c_pc \in {"run", "write_report", "done"} => c_analyzer = vector

C14_Witness ==
    /\ exit_code = <<0>>
    /\ c_pc = "done"
    /\ c_cmd = "score-text"
    /\ c_model = model_name
    /\ model_name = <<"q", "/", "m">>
    /\ c_trait = "custom"
    /\ TraitNameOf(trait_config) = "custom"
    /\ trait.name = "sycophancy"
    /\ c_analyzer = vector

(* The preconditions of the command hold. *)
DirectionValid == c_cmd = "steer-generate" => c_direction \in {"reduce", "amplify"}
VectorFound == Exists(fs, ResolvedVectorPath)
DatasetFound == c_cmd = "analyze-dataset" => c_dataset_exists

(* C28: score-text, analyze-dataset and steer-generate check the direction,
   then the vector file, then the dataset file, all before the analyzer is
   constructed: once a check has failed, no analyzer is constructed and no
   result of the core operation is printed, and the construction is reached
   only with every check passed. *)
C28_ChecksBeforeConstruction ==
    /\ c_fail \in {"direction", "vector", "dataset"} =>
           /\ c_analyzer = <<>>
           /\ "result" \notin c_echo
           /\ c_pc \in {"except", "failed"}
    /\ c_pc \in {"construct", "run", "write_report", "done"}
         \/ c_fail \in {"construct", "core", "report"} =>
           DirectionValid /\ VectorFound /\ DatasetFound
    /\ c_fail = "direction" => ~DirectionValid
    /\ c_fail = "vector" => DirectionValid /\ ~VectorFound
    /\ c_fail = "dataset" => VectorFound /\ ~DatasetFound
    /\ c_analyzer # <<>> => c_fail \in {"", "core", "report"}

C28_Witness ==
    /\ c_pc = "failed"
    /\ c_cmd = "analyze-dataset"
    /\ c_fail = "dataset"
    /\ VectorFound
    /\ c_analyzer = <<>>
    /\ c_exit = <<1>>

-----------------------------------------------------------------------------
(***************************************************************************)
(* Properties of save_persona_vector and load_persona_vector               *)
(***************************************************************************)
(* C15: a load from the path returned by a save for (model, trait,
   directory) yields the vector most recently saved for that key, whatever
   was saved for other keys before or since. *)
C15_LoadReturnsLatestSave ==
    s_loaded # NoLoad =>
        s_loaded.vector = s_loaded.saved[<<s_loaded.model, s_loaded.trait, s_loaded.dir>>]

(* What does hold: a load returns the vector most recently saved at the path,
   by whichever key resolves to that path. *)
LoadReturnsLatestAtPath ==
    s_loaded # NoLoad =>
        \E k \in StoreKeys :
            /\ VectorPath(k[3], k[1], k[2]) =
                   VectorPath(s_loaded.dir, s_loaded.model, s_loaded.trait)
            /\ s_loaded.vector = s_loaded.saved[k]

-----------------------------------------------------------------------------
(***************************************************************************)
(* Properties of get_analyzer                                              *)
(***************************************************************************)
ConstructionsFor(k) == {i \in 1..Len(constructions) : constructions[i] = k}

OneEntryPerKey == \A e1 \in cache, e2 \in cache : e1.key = e2.key => e1 = e2

OneAnalyzerPerKey ==
    /\ OneEntryPerKey
    /\ \A e \in cache : constructions[e.analyzer] = e.key
    /\ \A i \in 1..Len(constructions) :
           /\ ConstructionsFor(constructions[i]) = {i}
           /\ \/ [key |-> constructions[i], analyzer |-> i] \in cache
              \/ \E t \in Requests : r_analyzer[t] = i /\ r_pc[t] = "insert"
    /\ \A t \in Requests : r_pc[t] = "returned" =>
           LET k == KeyOf(r_args[t])
           IN  /\ [key |-> k, analyzer |-> r_held[t]] \in cache
               /\ IF InCache(r_cache0[t], k)
                  THEN /\ r_held[t] = CacheGet(r_cache0[t], k)
                       /\ ~r_missed[t]
                       /\ r_analyzer[t] = 0
                  ELSE /\ r_held[t] = r_analyzer[t]
                       /\ ConstructionsFor(k) = {r_held[t]}

FailedCallLeavesCache ==
    \A t \in Requests :
        r_pc[t] # "raised" /\ r_pc'[t] = "raised" => cache' = cache /\ cache = r_cache0[t]

(* C16: with requests handled one at a time the cache holds one analyzer per
   key; the first call for a key constructs the analyzer and stores it, every
   later call for the key returns that instance and constructs nothing, and
   a call that raises leaves the cache as it was. *)
C16_SerializedOneAnalyzerPerKey == []OneAnalyzerPerKey /\ [][FailedCallLeavesCache]_vars

C16_Witness ==
    /\ r_pc[1] = "returned"
    /\ r_pc[2] = "returned"
    /\ r_missed[1]
    /\ ~r_missed[2]
    /\ r_args[1] = r_args[2]
    /\ r_held[1] = 2
    /\ r_held[2] = 2
    /\ Len(constructions) = 2
    /\ calls = 3

(* C17: nothing keeps two requests for the same key from both passing the
   membership check before either inserts; both then construct an analyzer
   of their own and are returned different instances, the later insertion
   replacing the earlier one in the cache. *)
C17_InterleavedRequestsBothConstruct ==
    /\ \A t \in Requests, u \in Requests :
           /\ t # u
           /\ KeyOf(r_args[t]) = KeyOf(r_args[u])
           /\ r_missed[t] /\ r_missed[u]
           /\ r_analyzer[t] # 0 /\ r_analyzer[u] # 0
           => /\ r_analyzer[t] # r_analyzer[u]
              /\ constructions[r_analyzer[t]] = KeyOf(r_args[t])
              /\ constructions[r_analyzer[u]] = KeyOf(r_args[u])
              /\ r_pc[t] = "returned" /\ r_pc[u] = "returned" =>
                     /\ r_held[t] # r_held[u]
                     /\ [key |-> last_put.key, analyzer |-> last_put.analyzer] \in cache
                     /\ last_put.key = KeyOf(r_args[t])
    /\ last_put # NoPut => [key |-> last_put.key, analyzer |-> last_put.analyzer] \in cache
    /\ OneEntryPerKey

C17_Witness ==
    /\ r_pc[1] = "returned"
    /\ r_pc[2] = "returned"
    /\ KeyOf(r_args[1]) = KeyOf(r_args[2])
    /\ r_missed[1] /\ r_missed[2]
    /\ r_held[1] = 1
    /\ r_held[2] = 2
    /\ constructions = <<KeyOf(r_args[1]), KeyOf(r_args[1])>>
    /\ cache = {[key |-> KeyOf(r_args[1]), analyzer |-> 1]}

(* C29: the cache key is injective on (model name, vector path, device): the
   analyzer a request is given was constructed for the model, the vector
   file and the device of that request. *)
C29_ServedByOwnAnalyzer ==
    \A t \in Requests :
        r_pc[t] = "returned" =>
            LET built == constructed_with[r_held[t]]
            IN  /\ built.model = r_args[t].model
                /\ built.path = ResolvedPath(r_args[t].path)
                /\ built.device = r_args[t].device

-----------------------------------------------------------------------------
(***************************************************************************)
(* Properties of a sequence of operations on one analyzer                  *)
(***************************************************************************)
ScoresRepeat ==
    /\ persona_vector = sess_vector0
    /\ \A i \in 1..Len(sess_log), j \in 1..Len(sess_log) :
           sess_log[i].text = sess_log[j].text => sess_log[i].score = sess_log[j].score
    /\ \A i \in 1..Len(sess_log) :
           \E text \in SessionTexts :
               /\ sess_log[i].text = text
               /\ sess_log[i].score = Dot(GetHiddenState(text), sess_vector0)

VectorUntouched == persona_vector' = persona_vector

(* C18: no step of score_text, score_multiple_texts, analyze_dataset_file or
   generate_with_steering changes the persona vector loaded at construction,
   and every score_text call for a text returns the same scalar, whatever
   operations ran on the analyzer in between. *)
C18_ScoringLeavesAnalyzerUnchanged == []ScoresRepeat /\ [][VectorUntouched]_vars

C18_Witness ==
    /\ sess_ops = <<Operation("score_text", <<<<1, 2>>>>),
                    Operation("generate_with_steering", <<>>),
                    Operation("analyze_dataset_file", <<>>),
                    Operation("score_text", <<<<1, 2>>>>)>>
    /\ NoOperationRunning
    /\ Len(sess_log) = 2
    /\ sess_log[1].text = <<1, 2>>
    /\ sess_log[2] = sess_log[1]
    /\ sess_log[1].score = -1
    /\ persona_vector = <<-1, 1>>

=============================================================================
